---- MODULE Spec2Model ----
(***************************************************************************)
(* A model of the CVSS calculator (src/cvss_calculator.py), of the batch   *)
(* loop that drives it (src/excel_processor.py) and of the calls made on   *)
(* one shared CVSSCalculator.                                              *)
(*                                                                         *)
(* Representation.                                                         *)
(*  - A Python str is a sequence of tokens.  The tokens "/" and ":" are    *)
(*    the two separator characters the code splits on; every other token   *)
(*    is a run of characters holding neither separator ("CVSS", "3.1",     *)
(*    "AV", "N", "x").  Adjacent tokens are adjacent text, so              *)
(*    <<"CVSS", ":", "3.1", "x">> is the text CVSS:3.1x.                   *)
(*  - A Python value handed to calculate_score is a record                 *)
(*    [type, s]: type "str" with its tokens, or type "NoneType".           *)
(*  - A dict of metrics is a function from keys to values, both token      *)
(*    sequences (the text between separators).                             *)
(*  - A float is an IEEE 754 double, kept as a sign, a mantissa and a      *)
(*    binary exponent (a Float, see below).  None is <<>>, a value x that  *)
(*    may be None is <<x>>.                                                *)
(*  - A function that can raise returns [exc, val]: exc is NoExc and val   *)
(*    the returned value, or exc is the exception raised.                  *)
(***************************************************************************)
EXTENDS Integers, Sequences, FiniteSets, TLC

SLASH == "/"
COLON == ":"

\* The text of one token sequence: a Python str.
Str(toks) == [type |-> "str", s |-> toks]
\* Python's None.
PyNone == [type |-> "NoneType", s |-> <<>>]

\* A key or value made of one token, as text.
K(w) == <<w>>

(***************************************************************************)
(* Exceptions.  text is the fixed part of str(e); arg is the quoted key of *)
(* a KeyError (str(KeyError('C')) is 'C' in quotes).                       *)
(***************************************************************************)
NoExc == [type |-> "", text |-> "", arg |-> <<>>]
Exc(type, text, arg) == [type |-> type, text |-> text, arg |-> arg]
KeyError(key) == Exc("KeyError", "", key)
Ok(x) == [exc |-> NoExc, val |-> x]
Raise(e) == [exc |-> e, val |-> <<>>]
Raised(r) == r.exc # NoExc

(***************************************************************************)
(* str operations used by the code.                                        *)
(***************************************************************************)
\* s.startswith(prefix)
startswith(s, prefix) ==
    /\ Len(s) >= Len(prefix)
    /\ SubSeq(s, 1, Len(prefix)) = prefix

\* The index of the first sep in s, 0 when there is none.
FirstIndex(s, sep) ==
    IF \E i \in DOMAIN s : s[i] = sep
    THEN CHOOSE i \in DOMAIN s : s[i] = sep /\ \A j \in 1..(i - 1) : s[j] # sep
    ELSE 0

\* s.split(sep): the pieces between separators, empty pieces kept.
RECURSIVE split(_, _)
split(s, sep) ==
    LET i == FirstIndex(s, sep)
    IN IF i = 0 THEN <<s>>
       ELSE <<SubSeq(s, 1, i - 1)>> \o split(SubSeq(s, i + 1, Len(s)), sep)

\* s.split(sep, 1): at most one split.
split1(s, sep) ==
    LET i == FirstIndex(s, sep)
    IN IF i = 0 THEN <<s>>
       ELSE <<SubSeq(s, 1, i - 1), SubSeq(s, i + 1, Len(s))>>

\* sep.join(parts)
RECURSIVE join(_, _)
join(sep, parts) ==
    IF parts = <<>> THEN <<>>
    ELSE IF Len(parts) = 1 THEN parts[1]
    ELSE parts[1] \o <<sep>> \o join(sep, Tail(parts))

(***************************************************************************)
(* detect_version and parse_vector.                                        *)
(***************************************************************************)
TagV40 == <<"CVSS", COLON, "4.0">>
TagV31 == <<"CVSS", COLON, "3.1">>

\* detect_version(vector_string): "4.0", "3.1" or ValueError.  A value that
\* is no str has no startswith: AttributeError.
detect_version(vector_string) ==
    IF vector_string.type # "str"
    THEN Raise(Exc("AttributeError",
                   "object has no attribute 'startswith'", <<>>))
    ELSE IF startswith(vector_string.s, TagV40) THEN Ok("4.0")
    ELSE IF startswith(vector_string.s, TagV31) THEN Ok("3.1")
    ELSE Raise(Exc("ValueError", "Unsupported CVSS version", <<>>))

\* metrics[key] = value
DictSet(metrics, key, value) ==
    [k \in (DOMAIN metrics) \cup {key} |->
        IF k = key THEN value ELSE metrics[k]]

EmptyDict == [k \in {} |-> <<>>]

\* The loop of parse_vector over the '/'-separated pieces: an empty piece is
\* skipped, a piece that does not split on ':' into exactly two parts raises
\* (the unpacking fails), a later key overwrites an earlier one.
RECURSIVE ParseSegments(_, _)
ParseSegments(segs, metrics) ==
    IF segs = <<>> THEN Ok(metrics)
    ELSE LET metric == Head(segs)
             parts == split(metric, COLON)
         IN IF metric = <<>> THEN ParseSegments(Tail(segs), metrics)
            ELSE IF Len(parts) < 2
            THEN Raise(Exc("ValueError",
                 "Invalid vector string format: not enough values to unpack", <<>>))
            ELSE IF Len(parts) > 2
            THEN Raise(Exc("ValueError",
                 "Invalid vector string format: too many values to unpack", <<>>))
            ELSE ParseSegments(Tail(segs), DictSet(metrics, parts[1], parts[2]))

\* parse_vector(vector_string), vector_string the tokens of a str.
parse_vector(s) ==
    IF startswith(s, <<"CVSS", COLON>>) /\ Len(split1(s, SLASH)) < 2
    THEN Raise(Exc("ValueError",
         "Invalid vector string format: list index out of range", <<>>))
    ELSE LET rest == IF startswith(s, <<"CVSS", COLON>>)
                     THEN split1(s, SLASH)[2] ELSE s
         IN ParseSegments(split(rest, SLASH), EmptyDict)

(***************************************************************************)
(* Numbers.  The code computes in Python floats: IEEE 754 binary64, every  *)
(* operation rounded to the nearest double, ties to the even mantissa.     *)
(* The model does the same.  A natural number is its sequence of limbs in  *)
(* base 2^15, lowest limb first, without high zero limbs (zero is <<>>).   *)
(* A Float is [neg, mag, exp]: the number (-1)^neg * mag * 2^exp, where    *)
(* mag has exactly MantissaBits bits, or is <<>> with exp 0 for zero, so   *)
(* that equal numbers are equal records.  The scores are far from the      *)
(* largest and the smallest doubles: overflow, subnormal numbers and the   *)
(* sign of zero are left out.                                              *)
(***************************************************************************)
LimbBits == 15
BASE == 2 ^ LimbBits
MantissaBits == 53

RestOf(a) == IF a = <<>> THEN <<>> ELSE Tail(a)
LowOf(a) == IF a = <<>> THEN 0 ELSE Head(a)

RECURSIVE NatTrim(_)
NatTrim(a) ==
    IF a = <<>> THEN <<>>
    ELSE IF a[Len(a)] = 0 THEN NatTrim(SubSeq(a, 1, Len(a) - 1))
    ELSE a

\* The limbs of the integer n >= 0
RECURSIVE NatOf(_)
NatOf(n) == IF n = 0 THEN <<>> ELSE <<n % BASE>> \o NatOf(n \div BASE)

\* a + b + c, c the carry
RECURSIVE NatAddC(_, _, _)
NatAddC(a, b, c) ==
    IF a = <<>> /\ b = <<>> THEN (IF c = 0 THEN <<>> ELSE <<c>>)
    ELSE <<(LowOf(a) + LowOf(b) + c) % BASE>>
         \o NatAddC(RestOf(a), RestOf(b), (LowOf(a) + LowOf(b) + c) \div BASE)

NatAdd(a, b) == NatAddC(a, b, 0)

\* a - b for a >= b
RECURSIVE NatSubB(_, _, _)
NatSubB(a, b, borrow) ==
    IF a = <<>> THEN <<>>
    ELSE IF LowOf(a) - LowOf(b) - borrow < 0
    THEN <<LowOf(a) - LowOf(b) - borrow + BASE>>
         \o NatSubB(RestOf(a), RestOf(b), 1)
    ELSE <<LowOf(a) - LowOf(b) - borrow>> \o NatSubB(RestOf(a), RestOf(b), 0)

NatSub(a, b) == NatTrim(NatSubB(a, b, 0))

\* -1, 0, 1 as a < b, a = b, a > b
RECURSIVE NatCmpFrom(_, _, _)
NatCmpFrom(a, b, i) ==
    IF i = 0 THEN 0
    ELSE IF a[i] < b[i] THEN -1
    ELSE IF a[i] > b[i] THEN 1
    ELSE NatCmpFrom(a, b, i - 1)

NatCmp(a, b) ==
    IF Len(a) < Len(b) THEN -1
    ELSE IF Len(a) > Len(b) THEN 1
    ELSE NatCmpFrom(a, b, Len(a))

\* a * m + c for 0 <= m < BASE
RECURSIVE NatMulSmallC(_, _, _)
NatMulSmallC(a, m, c) ==
    IF a = <<>> THEN (IF c = 0 THEN <<>> ELSE <<c>>)
    ELSE <<(Head(a) * m + c) % BASE>>
         \o NatMulSmallC(Tail(a), m, (Head(a) * m + c) \div BASE)

NatMulSmall(a, m) == IF m = 0 THEN <<>> ELSE NatMulSmallC(a, m, 0)

\* a * BASE^n
NatShift(a, n) == IF a = <<>> THEN <<>> ELSE [i \in 1..n |-> 0] \o a

\* a * b, limb by limb of b
RECURSIVE NatMulBy(_, _)
NatMulBy(a, b) ==
    IF b = <<>> \/ a = <<>> THEN <<>>
    ELSE NatAdd(NatMulSmall(a, Head(b)), NatShift(NatMulBy(a, Tail(b)), 1))

\* a * b, the recursion over the shorter factor
NatMul(a, b) == IF Len(b) <= Len(a) THEN NatMulBy(a, b) ELSE NatMulBy(b, a)

\* a^n for n >= 1, one factor a at a time
RECURSIVE NatPow(_, _)
NatPow(a, n) == IF n = 1 THEN a ELSE NatMul(NatPow(a, n - 1), a)

\* a divided by d, 0 < d < 2 * BASE: the quotient (high zero limbs kept) and
\* the remainder, from limb i down, rem the remainder of the limbs above
NatDivStep(rest, limb) == [q |-> Append(rest.q, limb), r |-> rest.r]

RECURSIVE NatDivFrom(_, _, _, _)
NatDivFrom(a, d, i, rem) ==
    IF i = 0 THEN [q |-> <<>>, r |-> rem]
    ELSE NatDivStep(NatDivFrom(a, d, i - 1, (rem * BASE + a[i]) % d),
                    (rem * BASE + a[i]) \div d)

NatDivSmall(a, d) == NatDivFrom(a, d, Len(a), 0)

\* The number of bits of a limb, of a natural number
RECURSIVE BitsOf(_)
BitsOf(v) == IF v = 0 THEN 0 ELSE 1 + BitsOf(v \div 2)

BitLen(a) ==
    IF a = <<>> THEN 0 ELSE LimbBits * (Len(a) - 1) + BitsOf(a[Len(a)])

\* a * 2^n
ShiftLeft(a, n) == NatShift(NatMulSmall(a, 2 ^ (n % LimbBits)), n \div LimbBits)

\* a divided by 2^n: the quotient, and whether a bit that is 1 was dropped
ShiftedRight(d, a, limbs) ==
    [q |-> NatTrim(d.q),
     sticky |-> d.r # 0 \/ \E i \in 1..limbs : i <= Len(a) /\ a[i] # 0]

ShiftRight(a, n) ==
    ShiftedRight(
        IF n \div LimbBits >= Len(a) THEN [q |-> <<>>, r |-> 0]
        ELSE NatDivSmall(SubSeq(a, n \div LimbBits + 1, Len(a)),
                         2 ^ (n % LimbBits)),
        a, n \div LimbBits)

FloatZero == [neg |-> FALSE, mag |-> <<>>, exp |-> 0]

\* mag * 2^exp for a mag of at most MantissaBits + 1 bits: 2^MantissaBits
\* is the next power of two
FloatCarried(neg, mag, exp) ==
    IF BitLen(mag) > MantissaBits
    THEN [neg |-> neg, mag |-> NatTrim(NatDivSmall(mag, 2).q), exp |-> exp + 1]
    ELSE [neg |-> neg, mag |-> mag, exp |-> exp]

\* half.q is the mantissa, half.r the bit after it, sticky whether a later
\* bit is 1: the nearest mantissa, a tie going to the even one
FloatHalfEven(neg, half, sticky, exp) ==
    IF half.r = 1 /\ (sticky \/ LowOf(half.q) % 2 = 1)
    THEN FloatCarried(neg, NatAdd(NatTrim(half.q), <<1>>), exp)
    ELSE [neg |-> neg, mag |-> NatTrim(half.q), exp |-> exp]

\* shifted.q has MantissaBits + 1 bits
FloatRounded(neg, shifted, exp) ==
    FloatHalfEven(neg, NatDivSmall(shifted.q, 2), shifted.sticky, exp + 1)

\* The double nearest (-1)^neg * mag * 2^exp, with bits the bits of mag
FloatOfBits(neg, mag, exp, bits) ==
    IF bits = 0 THEN FloatZero
    ELSE IF bits <= MantissaBits
    THEN [neg |-> neg, mag |-> ShiftLeft(mag, MantissaBits - bits),
          exp |-> exp - (MantissaBits - bits)]
    ELSE FloatRounded(neg, ShiftRight(mag, bits - MantissaBits - 1),
                      exp + bits - MantissaBits - 1)

FloatOf(neg, mag, exp) == FloatOfBits(neg, mag, exp, BitLen(mag))

\* The double nearest num / d for 0 < d < 2 * BASE: the quotient of
\* num * 2^70 has more than MantissaBits + 1 bits, and the bit appended
\* says whether the division left a remainder
FloatOfQuotient(neg, quot) ==
    FloatOf(neg, NatAdd(NatMulSmall(NatTrim(quot.q), 2),
                        IF quot.r = 0 THEN <<>> ELSE <<1>>), -71)

FloatRatio(neg, num, d) ==
    IF num = <<>> THEN FloatZero
    ELSE FloatOfQuotient(neg, NatDivSmall(ShiftLeft(num, 70), d))

\* The float literal n / 10^4 for 0 <= n < 10^8: Float4(8500) is 0.85,
\* Float4(82200) is 8.22.
Float4(n) == FloatRatio(FALSE, NatOf(n), 10 * 1000)

\* float(n) for an integer n >= 0
FloatInt(n) == FloatOf(FALSE, NatOf(n), 0)

\* The float k / 10: a score with one decimal place.
Tenths(k) == FloatRatio(FALSE, NatOf(k), 10)

FloatNeg(x) == IF x = FloatZero THEN x ELSE [x EXCEPT !.neg = ~x.neg]

\* x * y
FloatMul(x, y) == FloatOf(x.neg # y.neg, NatMul(x.mag, y.mag), x.exp + y.exp)

\* The sum of two numbers of one exponent e
FloatAddAligned(xneg, xm, yneg, ym, e) ==
    IF xneg = yneg THEN FloatOf(xneg, NatAdd(xm, ym), e)
    ELSE IF NatCmp(xm, ym) >= 0 THEN FloatOf(xneg, NatSub(xm, ym), e)
    ELSE FloatOf(yneg, NatSub(ym, xm), e)

FloatAddAt(x, y, e) ==
    FloatAddAligned(x.neg, ShiftLeft(x.mag, x.exp - e),
                    y.neg, ShiftLeft(y.mag, y.exp - e), e)

\* x + y, x - y
FloatAdd(x, y) ==
    IF x = FloatZero THEN y
    ELSE IF y = FloatZero THEN x
    ELSE FloatAddAt(x, y, IF x.exp < y.exp THEN x.exp ELSE y.exp)

FloatSub(x, y) == FloatAdd(x, FloatNeg(y))

\* x <= y, x < y, min, max
FloatNonPositive(d) == d = FloatZero \/ d.neg
FloatLe(x, y) == FloatNonPositive(FloatSub(x, y))
FloatLt(x, y) == FloatSub(x, y).neg
FloatMin(x, y) == IF FloatLe(x, y) THEN x ELSE y
FloatMax(x, y) == IF FloatLe(x, y) THEN y ELSE x
FloatMax3(x, y, z) == FloatMax(FloatMax(x, y), z)

\* The double nearest x^n, for an integer n >= 1
NearestPower(x, n) ==
    IF x = FloatZero THEN FloatZero
    ELSE FloatOf(x.neg /\ n % 2 = 1, NatPow(x.mag, n), x.exp * n)

\* math.ceil(x), an int: its sign and its limbs
CeilOfShifted(neg, shifted) ==
    IF neg THEN [neg |-> shifted.q # <<>>, mag |-> shifted.q]
    ELSE [neg |-> FALSE,
          mag |-> IF shifted.sticky THEN NatAdd(shifted.q, <<1>>)
                  ELSE shifted.q]

FloatCeil(x) ==
    IF x.exp >= 0 THEN [neg |-> x.neg, mag |-> ShiftLeft(x.mag, x.exp)]
    ELSE CeilOfShifted(x.neg, ShiftRight(x.mag, -x.exp))

\* round_up(number): math.ceil(number * 10) / 10, an int divided by an int
RoundUpOf(ceiling) == FloatRatio(ceiling.neg, ceiling.mag, 10)

round_up(number) == RoundUpOf(FloatCeil(FloatMul(number, FloatInt(10))))

(***************************************************************************)
(* Dict lookups.  metrics[name] raises KeyError(name) when the key is      *)
(* absent; table[value] raises KeyError(value) when the value is not a key *)
(* of the table.                                                           *)
(***************************************************************************)
Lookup(table, key) ==
    IF key \in DOMAIN table THEN Ok(table[key]) ELSE Raise(KeyError(key))

\* TABLE[metrics[name]]
TableGet(table, metrics, name) ==
    LET m == Lookup(metrics, K(name))
    IN IF Raised(m) THEN m ELSE Lookup(table, m.val)

\* metrics.get(name, default)
DictGet(metrics, name, default) ==
    IF K(name) \in DOMAIN metrics THEN metrics[K(name)] ELSE default

\* table.get(key, default)
TableGetDefault(table, key, default) ==
    IF key \in DOMAIN table THEN table[key] ELSE default

\* The exception of the first of rs (in evaluation order) that raised, NoExc
\* when none did.
FirstExc(rs) ==
    IF \E i \in DOMAIN rs : Raised(rs[i])
    THEN rs[CHOOSE i \in DOMAIN rs :
                Raised(rs[i]) /\ \A j \in 1..(i - 1) : ~Raised(rs[j])].exc
    ELSE NoExc

(***************************************************************************)
(* METRICS_V31                                                             *)
(***************************************************************************)
V31_AV == K("N") :> Float4(8500) @@ K("A") :> Float4(6200) @@ K("L") :> Float4(5500)
          @@ K("P") :> Float4(2000)
V31_AC == K("L") :> Float4(7700) @@ K("H") :> Float4(4400)
V31_PR == K("N") :> (K("U") :> Float4(8500) @@ K("C") :> Float4(8500))
          @@ K("L") :> (K("U") :> Float4(6200) @@ K("C") :> Float4(6800))
          @@ K("H") :> (K("U") :> Float4(2700) @@ K("C") :> Float4(5000))
V31_UI == K("N") :> Float4(8500) @@ K("R") :> Float4(6200)
V31_CIA == K("H") :> Float4(5600) @@ K("L") :> Float4(2200) @@ K("N") :> FloatZero
V31_E == K("X") :> FloatInt(1) @@ K("H") :> FloatInt(1) @@ K("F") :> Float4(9700)
         @@ K("P") :> Float4(9400) @@ K("U") :> Float4(9100)
V31_RL == K("X") :> FloatInt(1) @@ K("O") :> Float4(9500) @@ K("T") :> Float4(9600)
          @@ K("W") :> Float4(9700) @@ K("U") :> FloatInt(1)
V31_RC == K("X") :> FloatInt(1) @@ K("C") :> FloatInt(1) @@ K("R") :> Float4(9600)
          @@ K("U") :> Float4(9200)

(***************************************************************************)
(* METRICS_V40                                                             *)
(***************************************************************************)
V40_AV == K("N") :> Float4(8500) @@ K("A") :> Float4(6200) @@ K("L") :> Float4(5500)
          @@ K("P") :> Float4(2000)
V40_AC == K("L") :> Float4(7700) @@ K("H") :> Float4(4400)
V40_AT == K("N") :> Float4(8500) @@ K("P") :> Float4(5500)
V40_PR == K("N") :> Float4(8500) @@ K("L") :> Float4(6200) @@ K("H") :> Float4(2700)
V40_UI == K("N") :> Float4(8500) @@ K("P") :> Float4(6200) @@ K("A") :> Float4(4500)
\* VC, VI, VA, SC, SI, SA hold the same table
V40_IMPACT == K("H") :> Float4(5600) @@ K("L") :> Float4(2200) @@ K("N") :> FloatZero
V40_E == K("X") :> FloatInt(1) @@ K("A") :> FloatInt(1) @@ K("P") :> Float4(9400)
         @@ K("U") :> Float4(9100)
\* CR, IR, AR hold the same table
V40_REQ == K("X") :> FloatInt(1) @@ K("H") :> Float4(15000) @@ K("M") :> FloatInt(1)
           @@ K("L") :> Float4(5000)

(***************************************************************************)
(* Severity.                                                               *)
(***************************************************************************)
\* get_v31_severity with <= in the place of < in its comparisons
get_v31_severity_closed(score) ==
    IF score = FloatZero THEN "None"
    ELSE IF FloatLe(score, FloatInt(4)) THEN "Low"
    ELSE IF FloatLe(score, FloatInt(7)) THEN "Medium"
    ELSE IF FloatLe(score, FloatInt(9)) THEN "High"
    ELSE "Critical"

get_v31_severity(score) ==
    IF score = FloatZero THEN "None"
    ELSE IF FloatLt(score, FloatInt(4)) THEN "Low"
    ELSE IF FloatLt(score, FloatInt(7)) THEN "Medium"
    ELSE IF FloatLt(score, FloatInt(9)) THEN "High"
    ELSE "Critical"

get_v40_severity(score) ==
    IF score = FloatZero THEN "None"
    ELSE IF FloatLt(score, FloatInt(4)) THEN "Low"
    ELSE IF FloatLt(score, FloatInt(7)) THEN "Medium"
    ELSE IF FloatLt(score, FloatInt(9)) THEN "High"
    ELSE "Critical"

\* Python's truth value of an optional score: None and 0.0 are false.
Truthy(opt) == opt # <<>> /\ opt[1] # FloatZero

(***************************************************************************)
(* CVSS v3.1 sub-scores.                                                   *)
(***************************************************************************)
\* The product alone, not taken from 1
calculate_v31_isc_base_complement(metrics) ==
    LET impact_conf == TableGet(V31_CIA, metrics, "C")
        impact_integ == TableGet(V31_CIA, metrics, "I")
        impact_avail == TableGet(V31_CIA, metrics, "A")
        e == FirstExc(<<impact_conf, impact_integ, impact_avail>>)
    IN IF e # NoExc THEN Raise(e)
       ELSE Ok(FloatMul(FloatMul(FloatSub(FloatInt(1), impact_conf.val),
                             FloatSub(FloatInt(1), impact_integ.val)),
                      FloatSub(FloatInt(1), impact_avail.val)))

calculate_v31_isc_base(metrics) ==
    LET impact_conf == TableGet(V31_CIA, metrics, "C")
        impact_integ == TableGet(V31_CIA, metrics, "I")
        impact_avail == TableGet(V31_CIA, metrics, "A")
        e == FirstExc(<<impact_conf, impact_integ, impact_avail>>)
    IN IF e # NoExc THEN Raise(e)
       ELSE Ok(FloatSub(FloatInt(1),
                FloatMul(FloatMul(FloatSub(FloatInt(1), impact_conf.val),
                              FloatSub(FloatInt(1), impact_integ.val)),
                       FloatSub(FloatInt(1), impact_avail.val))))

\* pow(x, 15) is the C library's pow: its result lies within one unit in
\* the last place of x^15, and which double it is depends on the library.
\* calculate_v31_isc_base has 27 outcomes without an exception, one for
\* each choice of legal values of C, I and A, and pow is only ever applied
\* to one of them less 0.02.  For each of these the library returns the
\* double nearest the power, and Pow15 holds it; Pow15 has no value for
\* any other float.
V31IscBases ==
    {calculate_v31_isc_base(
         (K("C") :> c) @@ (K("I") :> i) @@ (K("A") :> a)).val :
        c \in DOMAIN V31_CIA, i \in DOMAIN V31_CIA, a \in DOMAIN V31_CIA}

Pow15 ==
    [x \in {FloatSub(isc_base, Float4(200)) : isc_base \in V31IscBases} |->
        NearestPower(x, 15)]

\* scope is the text of metrics['S']: any text but U takes the second branch.
\* isc_base is an outcome of calculate_v31_isc_base (one of V31IscBases).
calculate_v31_impact_sub(isc_base, scope) ==
    IF scope = K("U") THEN FloatMul(Float4(64200), isc_base)
    ELSE FloatSub(FloatMul(Float4(75200), FloatSub(isc_base, Float4(290))),
                  FloatMul(Float4(32500),
                           Pow15[FloatSub(isc_base, Float4(200))]))

calculate_v31_exploitability(metrics) ==
    LET attack_vector == TableGet(V31_AV, metrics, "AV")
        attack_complexity == TableGet(V31_AC, metrics, "AC")
        pr_row == TableGet(V31_PR, metrics, "PR")
        privilege_required ==
            IF Raised(pr_row) THEN pr_row ELSE TableGet(pr_row.val, metrics, "S")
        user_interaction == TableGet(V31_UI, metrics, "UI")
        e == FirstExc(<<attack_vector, attack_complexity, privilege_required,
                        user_interaction>>)
    IN IF e # NoExc THEN Raise(e)
       ELSE Ok(FloatMul(FloatMul(FloatMul(FloatMul(Float4(82200), attack_vector.val),
                                    attack_complexity.val),
                             privilege_required.val),
                      user_interaction.val))

\* Lines 147-148 of calculate_v31_base_score: the impact sub-score.
V31ImpactSubOf(isc_base, scope) ==
    IF Raised(isc_base) THEN isc_base
    ELSE IF Raised(scope) THEN scope
    ELSE Ok(calculate_v31_impact_sub(isc_base.val, scope.val))

V31ImpactSub(metrics) ==
    V31ImpactSubOf(calculate_v31_isc_base(metrics), Lookup(metrics, K("S")))

\* Lines 156-162 of calculate_v31_base_score: the score from the sub-scores.
V31BaseFromSubs(impact_sub, exploit_sub, scope) ==
    IF FloatLe(impact_sub, FloatZero) THEN FloatZero
    ELSE IF scope = K("C")
    THEN round_up(FloatMin(FloatMul(Float4(10800), FloatAdd(impact_sub, exploit_sub)),
                         FloatInt(10)))
    ELSE round_up(FloatMin(FloatAdd(impact_sub, exploit_sub), FloatInt(10)))

(***************************************************************************)
(* The calculator object: its two instance fields (__init__).              *)
(***************************************************************************)
NewCalculator == [last_impact_score |-> FloatZero,
                  last_exploitability_score |-> FloatZero]

\* What a method returns: the exception or the value, and the object after.
Ret(r, self) == [exc |-> r.exc, val |-> r.val, self |-> self]

\* calculate_v31_base_score: the impact sub-score is stored in the object
\* before the exploitability sub-score is computed, and that one before the
\* score is.
\* Lines 153-162: exploit_sub is the outcome of line 152.
V31AfterExploitability(self, metrics, impact_sub, exploit_sub) ==
    IF Raised(exploit_sub) THEN Ret(exploit_sub, self)
    ELSE Ret(Ok(V31BaseFromSubs(impact_sub, exploit_sub.val, metrics[K("S")])),
             [self EXCEPT !.last_exploitability_score = exploit_sub.val])

\* Lines 149-162: impact_sub is the outcome of lines 147-148.
V31AfterImpact(self, metrics, impact_sub) ==
    IF Raised(impact_sub) THEN Ret(impact_sub, self)
    ELSE V31AfterExploitability(
             [self EXCEPT !.last_impact_score = impact_sub.val], metrics,
             impact_sub.val, calculate_v31_exploitability(metrics))

calculate_v31_base_score(self, metrics) ==
    V31AfterImpact(self, metrics, V31ImpactSub(metrics))

calculate_v31_temporal_score(base_score, metrics) ==
    LET exploit_code ==
            TableGetDefault(V31_E, DictGet(metrics, "E", K("X")), FloatInt(1))
        remediation_level ==
            TableGetDefault(V31_RL, DictGet(metrics, "RL", K("X")), FloatInt(1))
        report_confidence ==
            TableGetDefault(V31_RC, DictGet(metrics, "RC", K("X")), FloatInt(1))
    IN round_up(FloatMul(FloatMul(FloatMul(base_score, exploit_code),
                              remediation_level), report_confidence))

\* calculate_v31_environmental_score: its first statement calls
\* self.get_modified_metrics_v31, a method the class does not define, so the
\* attribute lookup raises and the rest of the body never runs.
calculate_v31_environmental_score(metrics) ==
    Raise(Exc("AttributeError",
        "'CVSSCalculator' object has no attribute 'get_modified_metrics_v31'",
        <<>>))

\* The parts f"{metric}:{metrics[metric]}" of the metrics of names, in order.
RECURSIVE VectorParts(_, _)
VectorParts(names, metrics) ==
    IF names = <<>> THEN <<>>
    ELSE (IF K(Head(names)) \in DOMAIN metrics
          THEN <<<<Head(names), COLON>> \o metrics[K(Head(names))]>>
          ELSE <<>>) \o VectorParts(Tail(names), metrics)

V31_base_metrics == <<"AV", "AC", "PR", "UI", "S", "C", "I", "A">>
V31_temporal_metrics == <<"E", "RL", "RC">>
V31_environmental_metrics ==
    <<"CR", "IR", "AR", "MAV", "MAC", "MPR", "MUI", "MS", "MC", "MI", "MA">>

create_v31_vector_string(metrics) ==
    Str(join(SLASH, <<TagV31>>
                    \o VectorParts(V31_base_metrics, metrics)
                    \o VectorParts(V31_temporal_metrics, metrics)
                    \o VectorParts(V31_environmental_metrics, metrics)))

(***************************************************************************)
(* Results.  A result dict is a record of all the fields any result has;   *)
(* keys is the set of the dict's keys, and a field whose key is absent, or *)
(* whose value is None, is <<>>.  error holds str(e).                      *)
(***************************************************************************)
NoMsg == [text |-> "", arg |-> <<>>]
MsgOf(e) == [text |-> e.text, arg |-> e.arg]

BlankResult ==
    [keys |-> {}, error |-> NoMsg, vector_string |-> PyNone, version |-> "",
     base_score |-> <<>>, base_severity |-> <<>>,
     temporal_score |-> <<>>, temporal_severity |-> <<>>,
     threat_score |-> <<>>, threat_severity |-> <<>>,
     environmental_score |-> <<>>, environmental_severity |-> <<>>,
     supplemental_scores |-> <<>>,
     impact_score |-> <<>>, exploitability_score |-> <<>>]

V31_RESULT_KEYS ==
    {"version", "vector_string", "base_score", "base_severity",
     "temporal_score", "temporal_severity", "environmental_score",
     "environmental_severity", "impact_score", "exploitability_score"}

V40_RESULT_KEYS ==
    {"version", "vector_string", "base_score", "base_severity",
     "threat_score", "threat_severity", "environmental_score",
     "environmental_severity", "supplemental_scores"}

IsError(result) == "error" \in result.keys

\* Lines 117-125 of calculate_v31_scores, after the base score: the temporal
\* and the environmental score, each None unless one of its metrics is there.
V31OptionalOf(temporal_score, applicable, environmental) ==
    IF Raised(environmental) THEN environmental
    ELSE Ok([temporal_score |-> temporal_score,
             environmental_score |->
                 IF applicable THEN <<environmental.val>> ELSE <<>>])

V31EnvironmentalApplies(metrics) ==
    \E m \in {"CR", "IR", "AR", "M"} : K(m) \in DOMAIN metrics

\* Lines 117-125 with the test of line 119 left out: the temporal score of
\* every vector
V31OptionalAlways(base_score, metrics) ==
    V31OptionalOf(
        <<calculate_v31_temporal_score(base_score, metrics)>>,
        V31EnvironmentalApplies(metrics),
        IF V31EnvironmentalApplies(metrics)
        THEN calculate_v31_environmental_score(metrics) ELSE Ok(<<>>))

V31Optional(base_score, metrics) ==
    V31OptionalOf(
        IF \E m \in {"E", "RL", "RC"} : K(m) \in DOMAIN metrics
        THEN <<calculate_v31_temporal_score(base_score, metrics)>> ELSE <<>>,
        V31EnvironmentalApplies(metrics),
        IF V31EnvironmentalApplies(metrics)
        THEN calculate_v31_environmental_score(metrics) ELSE Ok(<<>>))

\* Lines 127-138 of calculate_v31_scores: the dict returned.  impact_score and
\* exploitability_score are the values read from the object's fields.
V31Result(metrics, base_score, opt, impact_read, exploitability_read) ==
    [BlankResult EXCEPT
        !.keys = V31_RESULT_KEYS,
        !.version = "3.1",
        !.vector_string = create_v31_vector_string(metrics),
        !.base_score = <<base_score>>,
        !.base_severity = <<get_v31_severity(base_score)>>,
        !.temporal_score = opt.temporal_score,
        !.temporal_severity =
            IF Truthy(opt.temporal_score)
            THEN <<get_v31_severity(opt.temporal_score[1])>> ELSE <<>>,
        !.environmental_score = opt.environmental_score,
        !.environmental_severity =
            IF Truthy(opt.environmental_score)
            THEN <<get_v31_severity(opt.environmental_score[1])>> ELSE <<>>,
        !.impact_score = <<impact_read>>,
        !.exploitability_score = <<exploitability_read>>]

\* Lines 127-142: opt is the outcome of lines 117-125.
V31AfterOptional(metrics, base, opt) ==
    IF Raised(opt) THEN Ret(opt, base.self)
    ELSE Ret(Ok(V31Result(metrics, base.val, opt.val,
                          base.self.last_impact_score,
                          base.self.last_exploitability_score)), base.self)

\* Lines 117-142: base is the outcome of line 115.
V31AfterBase(metrics, base) ==
    IF Raised(base) THEN base
    ELSE V31AfterOptional(metrics, base, V31Optional(base.val, metrics))

calculate_v31_scores(self, metrics) ==
    V31AfterBase(metrics, calculate_v31_base_score(self, metrics))

(***************************************************************************)
(* CVSS v4.0.                                                              *)
(***************************************************************************)
calculate_v40_vulnerable_system_impact(metrics) ==
    LET vc == TableGet(V40_IMPACT, metrics, "VC")
        vi == TableGet(V40_IMPACT, metrics, "VI")
        va == TableGet(V40_IMPACT, metrics, "VA")
        e == FirstExc(<<vc, vi, va>>)
    IN IF e # NoExc THEN Raise(e) ELSE Ok(FloatMax3(vc.val, vi.val, va.val))

calculate_v40_subsequent_system_impact(metrics) ==
    LET sc == TableGet(V40_IMPACT, metrics, "SC")
        si == TableGet(V40_IMPACT, metrics, "SI")
        sa == TableGet(V40_IMPACT, metrics, "SA")
        e == FirstExc(<<sc, si, sa>>)
    IN IF e # NoExc THEN Raise(e) ELSE Ok(FloatMax3(sc.val, si.val, sa.val))

calculate_v40_exploitability(metrics) ==
    LET av == TableGet(V40_AV, metrics, "AV")
        ac == TableGet(V40_AC, metrics, "AC")
        at == TableGet(V40_AT, metrics, "AT")
        pr == TableGet(V40_PR, metrics, "PR")
        ui == TableGet(V40_UI, metrics, "UI")
        e == FirstExc(<<av, ac, at, pr, ui>>)
    IN IF e # NoExc THEN Raise(e)
       ELSE Ok(FloatMul(FloatMul(FloatMul(FloatMul(FloatMul(Float4(82200), av.val), ac.val),
                                    at.val), pr.val), ui.val))

\* Lines 335-338 of calculate_v40_base_score, from the three sub-scores.
V40BaseFromSubs(vs_impact, ss_impact, exploit_score) ==
    IF vs_impact = FloatZero /\ ss_impact = FloatZero THEN FloatZero
    ELSE round_up(FloatMin(FloatAdd(FloatAdd(exploit_score, vs_impact), ss_impact),
                         FloatInt(10)))

V40BaseOf(vs_impact, ss_impact, exploit_score, e) ==
    IF e # NoExc THEN Raise(e)
    ELSE Ok(V40BaseFromSubs(vs_impact.val, ss_impact.val, exploit_score.val))

V40BaseOfSubs(vs_impact, ss_impact, exploit_score) ==
    V40BaseOf(vs_impact, ss_impact, exploit_score,
              FirstExc(<<vs_impact, ss_impact, exploit_score>>))

calculate_v40_base_score(metrics) ==
    V40BaseOfSubs(calculate_v40_vulnerable_system_impact(metrics),
                  calculate_v40_subsequent_system_impact(metrics),
                  calculate_v40_exploitability(metrics))

calculate_v40_threat_score(base_score, metrics) ==
    LET exploit_maturity ==
            TableGetDefault(V40_E, DictGet(metrics, "E", K("X")), FloatInt(1))
    IN round_up(FloatMul(base_score, exploit_maturity))

\* The value None as a dict value (metrics.get of an absent key); no token of
\* a vector string is this text.
NoneValue == K("<None>")

V40_metric_mappings ==
    <<<<"AV", "MAV">>, <<"AC", "MAC">>, <<"AT", "MAT">>, <<"PR", "MPR">>,
      <<"UI", "MUI">>, <<"VC", "MVC">>, <<"VI", "MVI">>, <<"VA", "MVA">>>>

\* get_modified_metrics_v40: a dict of the eight mapped base names only (SC,
\* SI and SA are not among them), each holding the modified metric's value
\* when given and the base metric's otherwise.
get_modified_metrics_v40(metrics) ==
    [k \in {K(V40_metric_mappings[i][1]) : i \in DOMAIN V40_metric_mappings} |->
        LET i == CHOOSE j \in DOMAIN V40_metric_mappings :
                     K(V40_metric_mappings[j][1]) = k
        IN DictGet(metrics, V40_metric_mappings[i][2],
                   DictGet(metrics, V40_metric_mappings[i][1], NoneValue))]

\* Lines 380-384 of calculate_v40_environmental_score, modified_base the
\* outcome of line 377.
V40EnvironmentalOf(metrics, modified_base) ==
    IF Raised(modified_base) THEN modified_base
    ELSE Ok(round_up(FloatMin(
            FloatMul(modified_base.val,
                FloatMax3(TableGetDefault(V40_REQ, DictGet(metrics, "CR", K("X")),
                                        FloatInt(1)),
                        TableGetDefault(V40_REQ, DictGet(metrics, "IR", K("X")),
                                        FloatInt(1)),
                        TableGetDefault(V40_REQ, DictGet(metrics, "AR", K("X")),
                                        FloatInt(1)))),
            FloatInt(10))))

calculate_v40_environmental_score(metrics) ==
    V40EnvironmentalOf(metrics,
        calculate_v40_base_score(get_modified_metrics_v40(metrics)))

calculate_v40_supplemental_scores(metrics) ==
    [safety |-> DictGet(metrics, "S", K("X")),
     automation |-> DictGet(metrics, "AU", K("X")),
     recovery |-> DictGet(metrics, "R", K("X")),
     value_density |-> DictGet(metrics, "U", K("X"))]

V40_base_metrics ==
    <<"AV", "AC", "AT", "PR", "UI", "VC", "VI", "VA", "SC", "SI", "SA">>
V40_threat_metrics == <<"E">>
V40_environmental_metrics ==
    <<"CR", "IR", "AR", "MAV", "MAC", "MAT", "MPR", "MUI", "MVC", "MVI", "MVA">>
V40_supplemental_metrics == <<"S", "AU", "R", "U">>

\* create_v40_vector_string without the supplemental group
create_v40_vector_string_short(metrics) ==
    Str(join(SLASH, <<TagV40>>
                    \o VectorParts(V40_base_metrics, metrics)
                    \o VectorParts(V40_threat_metrics, metrics)
                    \o VectorParts(V40_environmental_metrics, metrics)))

create_v40_vector_string(metrics) ==
    Str(join(SLASH, <<TagV40>>
                    \o VectorParts(V40_base_metrics, metrics)
                    \o VectorParts(V40_threat_metrics, metrics)
                    \o VectorParts(V40_environmental_metrics, metrics)
                    \o VectorParts(V40_supplemental_metrics, metrics)))

Range(seq) == {seq[i] : i \in DOMAIN seq}

V40EnvironmentalApplies(metrics) ==
    \E m \in Range(V40_environmental_metrics) : K(m) \in DOMAIN metrics

\* Lines 307-317 of calculate_v40_scores: the dict returned.
V40Result(metrics, base_score, threat_score, environmental_score) ==
    [BlankResult EXCEPT
        !.keys = V40_RESULT_KEYS,
        !.version = "4.0",
        !.vector_string = create_v40_vector_string(metrics),
        !.base_score = <<base_score>>,
        !.base_severity = <<get_v40_severity(base_score)>>,
        !.threat_score = threat_score,
        !.threat_severity =
            IF Truthy(threat_score)
            THEN <<get_v40_severity(threat_score[1])>> ELSE <<>>,
        !.environmental_score = environmental_score,
        !.environmental_severity =
            IF Truthy(environmental_score)
            THEN <<get_v40_severity(environmental_score[1])>> ELSE <<>>,
        !.supplemental_scores =
            IF \E m \in Range(V40_supplemental_metrics) :
                    K(m) \in DOMAIN metrics
            THEN <<calculate_v40_supplemental_scores(metrics)>> ELSE <<>>]

\* Lines 302-321: environmental is the outcome of lines 298-300.
V40AfterEnvironmental(metrics, base_score, threat_score, environmental) ==
    IF Raised(environmental) THEN environmental
    ELSE Ok(V40Result(metrics, base_score, threat_score,
                      IF V40EnvironmentalApplies(metrics)
                      THEN <<environmental.val>> ELSE <<>>))

\* Lines 292-321: base_score is the outcome of line 290.
V40AfterBase(metrics, base_score) ==
    IF Raised(base_score) THEN base_score
    ELSE V40AfterEnvironmental(
            metrics, base_score.val,
            IF K("E") \in DOMAIN metrics
            THEN <<calculate_v40_threat_score(base_score.val, metrics)>>
            ELSE <<>>,
            IF V40EnvironmentalApplies(metrics)
            THEN calculate_v40_environmental_score(metrics) ELSE Ok(<<>>))

\* calculate_v40_scores: nothing of the object is read or written.
calculate_v40_scores(metrics) ==
    V40AfterBase(metrics, calculate_v40_base_score(metrics))

(***************************************************************************)
(* calculate_score: every exception ends as an error result.               *)
(***************************************************************************)
ErrorResult(e, vector_string) ==
    [BlankResult EXCEPT !.keys = {"error", "vector_string"},
                        !.error = MsgOf(e),
                        !.vector_string = vector_string]

\* Lines 433-436: the scores of the parsed vector.
ScoresOf(self, version, metrics) ==
    IF Raised(metrics) THEN Ret(metrics, self)
    ELSE IF version = "3.1" THEN calculate_v31_scores(self, metrics.val)
    ELSE Ret(calculate_v40_scores(metrics.val), self)

\* Lines 431-436: version is the outcome of line 430.
ScoresAfterDetect(self, vector_string, version) ==
    IF Raised(version) THEN Ret(version, self)
    ELSE ScoresOf(self, version.val, parse_vector(vector_string.s))

\* Lines 438-443: the dict returned, scores the outcome of the try body.
ResultOf(vector_string, scores) ==
    IF Raised(scores) THEN ErrorResult(scores.exc, vector_string)
    ELSE scores.val

\* [result, self]: the dict returned and the object after the call.
CallOutcome(vector_string, scores) ==
    [result |-> ResultOf(vector_string, scores), self |-> scores.self]

calculate_score(self, vector_string) ==
    CallOutcome(vector_string,
        ScoresAfterDetect(self, vector_string, detect_version(vector_string)))

(***************************************************************************)
(* The inputs of the model.  A vector string is a tag and '/'-separated    *)
(* segments; the families below are the valid vectors of both versions and *)
(* the ways an input departs from one: no value at all, no tag or another  *)
(* tag, metrics left out, illegal values, and up to MaxExtra further       *)
(* segments (optional metrics with legal and illegal values, a repeated    *)
(* key, an unknown key, segments without or with two ':', an empty         *)
(* segment).                                                               *)
(***************************************************************************)
MaxExtra == 2

\* The segment KEY:VALUE, and the segment KEY:VALUE:VALUE
Seg(k, v) == <<k, COLON, v>>
Seg3(k, v, w) == <<k, COLON, v, COLON, w>>

\* The text of a tag followed by segments, all joined by '/'
Vector(tag, segs) == Str(join(SLASH, <<tag>> \o segs))
\* The text of segments alone
Untagged(segs) == Str(join(SLASH, segs))

V31Base(av, ac, pr, ui, s, c, i, a) ==
    <<Seg("AV", av), Seg("AC", ac), Seg("PR", pr), Seg("UI", ui),
      Seg("S", s), Seg("C", c), Seg("I", i), Seg("A", a)>>

V40Base(av, ac, at, pr, ui, vc, vi, va, sc, si, sa) ==
    <<Seg("AV", av), Seg("AC", ac), Seg("AT", at), Seg("PR", pr),
      Seg("UI", ui), Seg("VC", vc), Seg("VI", vi), Seg("VA", va),
      Seg("SC", sc), Seg("SI", si), Seg("SA", sa)>>

\* Every CVSS v3.1 base vector
V31AllBases ==
    {V31Base(av, ac, pr, ui, s, c, i, a) :
        av \in {"N", "A", "L", "P"}, ac \in {"L", "H"}, pr \in {"N", "L", "H"},
        ui \in {"N", "R"}, s \in {"U", "C"},
        c \in {"H", "L", "N"}, i \in {"H", "L", "N"}, a \in {"H", "L", "N"}}

\* CVSS v4.0 base vectors: every impact, under three exploitability settings
V40Exploitabilities ==
    {<<"N", "L", "N", "N", "N">>, <<"A", "L", "P", "L", "P">>,
     <<"P", "H", "P", "H", "A">>}

V40SomeBases ==
    {V40Base(x[1], x[2], x[3], x[4], x[5], vc, vi, va, sc, si, sa) :
        x \in V40Exploitabilities,
        vc \in {"H", "L", "N"}, vi \in {"H", "L", "N"}, va \in {"H", "L", "N"},
        sc \in {"H", "L", "N"}, si \in {"H", "L", "N"}, sa \in {"H", "L", "N"}}

\* The vectors the other families start from
V31High == V31Base("N", "L", "N", "N", "U", "H", "H", "H")
V31Changed == V31Base("N", "H", "N", "R", "C", "H", "H", "H")
V31NoImpact == V31Base("N", "L", "N", "N", "U", "N", "N", "N")
V40High == V40Base("N", "L", "N", "N", "N", "H", "H", "H", "H", "H", "H")
V40NoImpact == V40Base("N", "L", "N", "N", "N", "N", "N", "N", "N", "N", "N")

V31Cores == {V31High, V31Changed, V31NoImpact}
V40Cores == {V40High, V40NoImpact}

\* Tags: the two supported ones, each also with a character more, and two
\* other versions
OtherTags ==
    {TagV31 \o <<"x">>, TagV40 \o <<"x">>,
     <<"CVSS", COLON, "3.0">>, <<"CVSS", COLON, "2.0">>}
Tags == {TagV31, TagV40} \cup OtherTags

\* The segments of segs at the positions of keep, in order
RECURSIVE Keep(_, _, _)
Keep(segs, keep, i) ==
    IF i > Len(segs) THEN <<>>
    ELSE (IF i \in keep THEN <<segs[i]>> ELSE <<>>) \o Keep(segs, keep, i + 1)

\* segs with the value of segment i replaced by v
WithValue(segs, i, v) == [segs EXCEPT ![i] = Seg(segs[i][1], v)]

\* The further segments
CommonExtras ==
    {Seg("E", "P"), Seg("E", "Z"), Seg("CR", "H"), Seg("CR", "Z"),
     Seg("MAV", "N"), Seg("MAV", "Z"), Seg("AV", "P"), Seg("ZZ", "Q"),
     <<"AV">>, Seg3("AV", "N", "N"), <<>>}
V31Extras == CommonExtras \cup {Seg("RL", "O")}
V40Extras == CommonExtras \cup {Seg("S", "P"), Seg("S", "Z")}

\* The sequences of at most n elements of pool
RECURSIVE SeqsUpTo(_, _)
SeqsUpTo(pool, n) ==
    IF n = 0 THEN {<<>>}
    ELSE LET shorter == SeqsUpTo(pool, n - 1)
         IN shorter \cup {Append(s, e) : s \in shorter, e \in pool}

Inputs ==
    \* no value, and the empty text
    {PyNone, Str(<<>>)}
    \* the valid base vectors
    \cup {Vector(TagV31, b) : b \in V31AllBases}
    \cup {Vector(TagV40, b) : b \in V40SomeBases}
    \* no tag, another tag, the tag alone, the tag run into the first segment
    \cup {Untagged(b) : b \in V31Cores \cup V40Cores}
    \cup {Vector(tag, b) : tag \in OtherTags, b \in V31Cores \cup V40Cores}
    \cup {Str(tag) : tag \in Tags}
    \cup {Str(tag \o join(SLASH, b)) :
            tag \in {TagV31, TagV40}, b \in {V31High, V40High}}
    \* metrics left out
    \cup {Vector(TagV31, Keep(V31High, keep, 1)) :
            keep \in SUBSET (1..Len(V31High))}
    \cup {Vector(TagV40, Keep(V40High, keep, 1)) :
            keep \in SUBSET (1..Len(V40High))}
    \* a base metric with an illegal value
    \cup {Vector(TagV31, WithValue(V31High, i, "Z")) : i \in 1..Len(V31High)}
    \cup {Vector(TagV40, WithValue(V40High, i, "Z")) : i \in 1..Len(V40High)}
    \* further segments
    \cup {Vector(TagV31, b \o ex) :
            b \in V31Cores, ex \in SeqsUpTo(V31Extras, MaxExtra)}
    \cup {Vector(TagV40, b \o ex) :
            b \in V40Cores, ex \in SeqsUpTo(V40Extras, MaxExtra)}

(***************************************************************************)
(* State.                                                                  *)
(***************************************************************************)
VARIABLES
    calc,           \* the CVSSCalculator object shared by all calls
    vector_string,  \* the argument of the last calculate_score call
    result,         \* the dict that call returned
    called,         \* whether a call has returned
    thread,         \* per thread: where its calculate_score call is, its locals
    sheet,          \* the worksheet: its header row and the rows below it
    pc,             \* where process_file is
    row,            \* the row the loop is at (1 is the row below the header)
    written,        \* per row, the result cells written: column offset to value
    successful,     \* process_file's counter
    failed,         \* process_file's counter
    argument,       \* the argument of a function applied on its own
    returned,       \* and what the function returned
    controls,       \* the state of the Browse and Process buttons, of the entry
    file_path_var,  \* the text of the file path entry
    stack,          \* the GUI handlers that were entered and have not returned
    events          \* the clicks not yet dispatched, oldest first

vars == <<calc, vector_string, result, called, thread, sheet, pc, row, written,
          successful, failed, argument,
          returned, controls, file_path_var, stack, events>>

callVars == <<vector_string, result, called>>
batchVars == <<sheet, pc, row, written, successful, failed>>
pureVars == <<argument, returned>>
guiVars == <<controls, file_path_var, stack, events>>

Threads == {1, 2}

\* The locals of a calculate_score call that has not begun
NewThread(v) ==
    [pc |-> "begin", vector_string |-> v, metrics |-> EmptyDict,
     impact_sub |-> FloatZero, exploit_sub |-> FloatZero,
     impact_read |-> FloatZero, result |-> BlankResult]

\* No call made, no thread running, no batch running
NoCall ==
    /\ vector_string = PyNone
    /\ result = BlankResult
    /\ called = FALSE

NoThreads == thread = [t \in Threads |-> [NewThread(PyNone) EXCEPT !.pc = "idle"]]

\* No function applied on its own
NoApplication == argument = <<>> /\ returned = <<>>

\* The window after CVSSCalculatorGUI.__init__ (setup_gui): Browse and the
\* entry are enabled, Process is disabled, no file is selected
NoGui ==
    /\ controls = [select_button |-> "normal", process_button |-> "disabled",
                   file_path_entry |-> "normal"]
    /\ file_path_var = ""
    /\ stack = <<>>
    /\ events = <<>>

NoSheet == [headers |-> <<>>, rows |-> <<>>]

NoBatch ==
    /\ sheet = NoSheet
    /\ pc = "idle"
    /\ row = 0
    /\ written = <<>>
    /\ successful = 0
    /\ failed = 0

\* calculate_score(v) on the shared object, as one step
Returns(v, r) ==
    /\ vector_string' = v
    /\ result' = r.result
    /\ calc' = r.self
    /\ called' = TRUE
    /\ UNCHANGED <<thread, batchVars, pureVars, guiVars>>

Call(v) == Returns(v, calculate_score(calc, v))

(***************************************************************************)
(* Spec: one call on a new calculator, for every input.                    *)
(***************************************************************************)
Init ==
    /\ calc = NewCalculator
    /\ NoGui
    /\ vector_string \in Inputs
    /\ result = BlankResult
    /\ called = FALSE
    /\ NoThreads
    /\ NoBatch
    /\ NoApplication

CallOnce == ~called /\ Call(vector_string)

Next == CallOnce

Spec == Init /\ [][Next]_vars

(***************************************************************************)
(* SpecCalls: any sequence of calls on one calculator.                     *)
(***************************************************************************)
CallInputs ==
    {PyNone, Str(<<>>),
     Vector(TagV31, V31High), Vector(TagV31, V31Changed),
     Vector(TagV31, V31NoImpact),
     Vector(TagV31, V31Base("L", "H", "H", "R", "U", "L", "N", "N")),
     Vector(TagV31, V31Base("A", "L", "L", "N", "C", "L", "L", "N")),
     Vector(TagV31, V31Base("P", "H", "H", "R", "C", "N", "L", "H")),
     Vector(TagV31, V31Base("N", "L", "L", "N", "U", "H", "N", "N")),
     Vector(TagV31, V31Base("L", "L", "N", "R", "U", "N", "H", "L")),
     \* fails before, between and after the two stores
     Vector(TagV31, <<Seg("AV", "N"), Seg("AC", "L")>>),
     Vector(TagV31, WithValue(V31High, 5, "Z")),
     Vector(TagV31, WithValue(V31NoImpact, 1, "Z")),
     Vector(TagV31, V31Changed \o <<Seg("CR", "H")>>),
     Vector(TagV40, V40High),
     Vector(TagV40, V40High \o <<Seg("CR", "H")>>)}

InitCalls ==
    /\ calc = NewCalculator
    /\ NoGui
    /\ NoCall
    /\ NoThreads
    /\ NoBatch
    /\ NoApplication

CallAny == \E v \in CallInputs : Call(v)

NextCalls == CallAny

SpecCalls == InitCalls /\ [][NextCalls]_vars

(***************************************************************************)
(* SpecThreads: two threads, each making one calculate_score call on the   *)
(* one shared calculator.  A step of a thread is one access to a field of  *)
(* the shared object together with the thread's own computation before    *)
(* it: the store of line 149, the store of line 153, the read of line 136  *)
(* and the read of line 137.  What a thread computes from its own locals   *)
(* between two accesses cannot be seen by the other thread.                *)
(***************************************************************************)
ThreadInputs ==
    {PyNone,
     Vector(TagV31, V31High), Vector(TagV31, V31Changed),
     Vector(TagV31, V31Base("L", "H", "H", "R", "U", "L", "N", "N")),
     Vector(TagV31, WithValue(V31High, 5, "Z")),
     Vector(TagV31, V31Changed \o <<Seg("CR", "H")>>),
     Vector(TagV40, V40High)}

\* The call of thread th has returned res
Done(th, res) == [th EXCEPT !.pc = "done", !.result = res]

\* Lines 430-436 up to the v3.1 dispatch: a v4.0 call touches no field of
\* the object and ends here, and so does a call that fails to parse.
AfterBegin(th, version, metrics) ==
    IF Raised(version) THEN Done(th, ErrorResult(version.exc, th.vector_string))
    ELSE IF Raised(metrics)
    THEN Done(th, ErrorResult(metrics.exc, th.vector_string))
    ELSE IF version.val = "3.1"
    THEN [th EXCEPT !.pc = "impact", !.metrics = metrics.val]
    ELSE Done(th, ResultOf(th.vector_string,
                           calculate_v40_scores(metrics.val)))

Begin(t) ==
    /\ thread[t].pc = "begin"
    /\ thread' = [thread EXCEPT ![t] =
            AfterBegin(thread[t], detect_version(thread[t].vector_string),
                       parse_vector(thread[t].vector_string.s))]
    /\ UNCHANGED <<calc, callVars, batchVars, pureVars, guiVars>>

\* Lines 147-149: self.last_impact_score = impact_sub
StoreImpactOf(t, impact_sub) ==
    IF Raised(impact_sub)
    THEN /\ thread' = [thread EXCEPT ![t] =
                Done(@, ErrorResult(impact_sub.exc, @.vector_string))]
         /\ calc' = calc
    ELSE /\ thread' = [thread EXCEPT ![t].pc = "exploitability",
                                     ![t].impact_sub = impact_sub.val]
         /\ calc' = [calc EXCEPT !.last_impact_score = impact_sub.val]

StoreImpact(t) ==
    /\ thread[t].pc = "impact"
    /\ StoreImpactOf(t, V31ImpactSub(thread[t].metrics))
    /\ UNCHANGED <<callVars, batchVars, pureVars, guiVars>>

\* Lines 152-153: self.last_exploitability_score = exploit_sub
StoreExploitabilityOf(t, exploit_sub) ==
    IF Raised(exploit_sub)
    THEN /\ thread' = [thread EXCEPT ![t] =
                Done(@, ErrorResult(exploit_sub.exc, @.vector_string))]
         /\ calc' = calc
    ELSE /\ thread' = [thread EXCEPT ![t].pc = "read_impact",
                                     ![t].exploit_sub = exploit_sub.val]
         /\ calc' = [calc EXCEPT !.last_exploitability_score = exploit_sub.val]

StoreExploitability(t) ==
    /\ thread[t].pc = "exploitability"
    /\ StoreExploitabilityOf(t, calculate_v31_exploitability(thread[t].metrics))
    /\ UNCHANGED <<callVars, batchVars, pureVars, guiVars>>

\* The base score of the thread's own sub-scores (lines 156-162)
ThreadBase(th) ==
    V31BaseFromSubs(th.impact_sub, th.exploit_sub, th.metrics[K("S")])

\* Lines 156-162 and 117-136: the read of self.last_impact_score
ReadImpactOf(t, opt) ==
    IF Raised(opt)
    THEN thread' = [thread EXCEPT ![t] =
                Done(@, ErrorResult(opt.exc, @.vector_string))]
    ELSE thread' = [thread EXCEPT ![t].pc = "read_exploitability",
                                  ![t].impact_read = calc.last_impact_score]

ReadImpact(t) ==
    /\ thread[t].pc = "read_impact"
    /\ ReadImpactOf(t, V31Optional(ThreadBase(thread[t]), thread[t].metrics))
    /\ UNCHANGED <<calc, callVars, batchVars, pureVars, guiVars>>

\* Lines 137-142: the read of self.last_exploitability_score, and the return
ThreadResult(th, base_score, exploitability_read) ==
    V31Result(th.metrics, base_score,
              V31Optional(base_score, th.metrics).val,
              th.impact_read, exploitability_read)

ReadExploitability(t) ==
    /\ thread[t].pc = "read_exploitability"
    /\ thread' = [thread EXCEPT ![t] =
            Done(@, ThreadResult(@, ThreadBase(@),
                                 calc.last_exploitability_score))]
    /\ UNCHANGED <<calc, callVars, batchVars, pureVars, guiVars>>

InitThreads ==
    /\ calc = NewCalculator
    /\ NoGui
    /\ NoCall
    /\ thread \in [Threads -> {NewThread(v) : v \in ThreadInputs}]
    /\ NoBatch
    /\ NoApplication

NextThreads ==
    \E t \in Threads :
        \/ Begin(t)
        \/ StoreImpact(t)
        \/ StoreExploitability(t)
        \/ ReadImpact(t)
        \/ ReadExploitability(t)

SpecThreads == InitThreads /\ [][NextThreads]_vars

(***************************************************************************)
(* SpecBatch: ExcelProcessor.process_file on one worksheet, without a gui. *)
(* headers are the values of the cells of row 1, each a text, an int, a    *)
(* bool or None; the text of a cell of row 1 is the sequence of the code   *)
(* points of its characters, so that it can be stripped, put in lower case *)
(* and searched.  A row below it is the value of its cell in the threat    *)
(* column: None, a number, or a text.  A text is told from other texts by  *)
(* what the vector generator handed to process_file does with it, so the   *)
(* cell carries that outcome: the generator raises, or returns None, or    *)
(* returns a vector string.                                                *)
(***************************************************************************)
MaxRows == 3

\* A character is its Unicode code point.
\* The white space of str.isspace, which str.strip() removes
WhiteSpace ==
    (9..13) \cup (28..32) \cup {133, 160, 5760} \cup (8192..8202)
        \cup {8232, 8233, 8239, 8287, 12288}

RECURSIVE lstrip(_)
lstrip(s) ==
    IF s # <<>> /\ Head(s) \in WhiteSpace THEN lstrip(Tail(s)) ELSE s
RECURSIVE rstrip(_)
rstrip(s) ==
    IF s # <<>> /\ s[Len(s)] \in WhiteSpace
    THEN rstrip(SubSeq(s, 1, Len(s) - 1)) ELSE s
\* s.strip()
strip(s) == rstrip(lstrip(s))

\* str.lower() follows the Unicode database of the interpreter (Unicode
\* 14.0).  LowerRuns holds the characters whose lower case is one other
\* character, as <<first, last, step, distance>>: every step-th character
\* from first to last has its lower case at that distance.
LowerRuns ==
    <<<<65, 90, 1, 32>>, <<192, 214, 1, 32>>, <<216, 222, 1, 32>>,
      <<256, 302, 2, 1>>, <<306, 310, 2, 1>>, <<313, 327, 2, 1>>,
      <<330, 374, 2, 1>>, <<376, 376, 1, -121>>, <<377, 381, 2, 1>>,
      <<385, 385, 1, 210>>, <<386, 388, 2, 1>>, <<390, 390, 1, 206>>,
      <<391, 391, 1, 1>>, <<393, 394, 1, 205>>, <<395, 395, 1, 1>>,
      <<398, 398, 1, 79>>, <<399, 399, 1, 202>>, <<400, 400, 1, 203>>,
      <<401, 401, 1, 1>>, <<403, 403, 1, 205>>, <<404, 404, 1, 207>>,
      <<406, 406, 1, 211>>, <<407, 407, 1, 209>>, <<408, 408, 1, 1>>,
      <<412, 412, 1, 211>>, <<413, 413, 1, 213>>, <<415, 415, 1, 214>>,
      <<416, 420, 2, 1>>, <<422, 422, 1, 218>>, <<423, 423, 1, 1>>,
      <<425, 425, 1, 218>>, <<428, 428, 1, 1>>, <<430, 430, 1, 218>>,
      <<431, 431, 1, 1>>, <<433, 434, 1, 217>>, <<435, 437, 2, 1>>,
      <<439, 439, 1, 219>>, <<440, 440, 1, 1>>, <<444, 444, 1, 1>>,
      <<452, 452, 1, 2>>, <<453, 453, 1, 1>>, <<455, 455, 1, 2>>,
      <<456, 456, 1, 1>>, <<458, 458, 1, 2>>, <<459, 475, 2, 1>>,
      <<478, 494, 2, 1>>, <<497, 497, 1, 2>>, <<498, 500, 2, 1>>,
      <<502, 502, 1, -97>>, <<503, 503, 1, -56>>, <<504, 542, 2, 1>>,
      <<544, 544, 1, -130>>, <<546, 562, 2, 1>>, <<570, 570, 1, 10795>>,
      <<571, 571, 1, 1>>, <<573, 573, 1, -163>>, <<574, 574, 1, 10792>>,
      <<577, 577, 1, 1>>, <<579, 579, 1, -195>>, <<580, 580, 1, 69>>,
      <<581, 581, 1, 71>>, <<582, 590, 2, 1>>, <<880, 882, 2, 1>>,
      <<886, 886, 1, 1>>, <<895, 895, 1, 116>>, <<902, 902, 1, 38>>,
      <<904, 906, 1, 37>>, <<908, 908, 1, 64>>, <<910, 911, 1, 63>>,
      <<913, 929, 1, 32>>, <<932, 939, 1, 32>>, <<975, 975, 1, 8>>,
      <<984, 1006, 2, 1>>, <<1012, 1012, 1, -60>>, <<1015, 1015, 1, 1>>,
      <<1017, 1017, 1, -7>>, <<1018, 1018, 1, 1>>,
      <<1021, 1023, 1, -130>>, <<1024, 1039, 1, 80>>,
      <<1040, 1071, 1, 32>>, <<1120, 1152, 2, 1>>, <<1162, 1214, 2, 1>>,
      <<1216, 1216, 1, 15>>, <<1217, 1229, 2, 1>>, <<1232, 1326, 2, 1>>,
      <<1329, 1366, 1, 48>>, <<4256, 4293, 1, 7264>>,
      <<4295, 4295, 1, 7264>>, <<4301, 4301, 1, 7264>>,
      <<5024, 5103, 1, 38864>>, <<5104, 5109, 1, 8>>,
      <<7312, 7354, 1, -3008>>, <<7357, 7359, 1, -3008>>,
      <<7680, 7828, 2, 1>>, <<7838, 7838, 1, -7615>>,
      <<7840, 7934, 2, 1>>, <<7944, 7951, 1, -8>>, <<7960, 7965, 1, -8>>,
      <<7976, 7983, 1, -8>>, <<7992, 7999, 1, -8>>, <<8008, 8013, 1, -8>>,
      <<8025, 8031, 2, -8>>, <<8040, 8047, 1, -8>>, <<8072, 8079, 1, -8>>,
      <<8088, 8095, 1, -8>>, <<8104, 8111, 1, -8>>, <<8120, 8121, 1, -8>>,
      <<8122, 8123, 1, -74>>, <<8124, 8124, 1, -9>>,
      <<8136, 8139, 1, -86>>, <<8140, 8140, 1, -9>>,
      <<8152, 8153, 1, -8>>, <<8154, 8155, 1, -100>>,
      <<8168, 8169, 1, -8>>, <<8170, 8171, 1, -112>>,
      <<8172, 8172, 1, -7>>, <<8184, 8185, 1, -128>>,
      <<8186, 8187, 1, -126>>, <<8188, 8188, 1, -9>>,
      <<8486, 8486, 1, -7517>>, <<8490, 8490, 1, -8383>>,
      <<8491, 8491, 1, -8262>>, <<8498, 8498, 1, 28>>,
      <<8544, 8559, 1, 16>>, <<8579, 8579, 1, 1>>, <<9398, 9423, 1, 26>>,
      <<11264, 11311, 1, 48>>, <<11360, 11360, 1, 1>>,
      <<11362, 11362, 1, -10743>>, <<11363, 11363, 1, -3814>>,
      <<11364, 11364, 1, -10727>>, <<11367, 11371, 2, 1>>,
      <<11373, 11373, 1, -10780>>, <<11374, 11374, 1, -10749>>,
      <<11375, 11375, 1, -10783>>, <<11376, 11376, 1, -10782>>,
      <<11378, 11378, 1, 1>>, <<11381, 11381, 1, 1>>,
      <<11390, 11391, 1, -10815>>, <<11392, 11490, 2, 1>>,
      <<11499, 11501, 2, 1>>, <<11506, 11506, 1, 1>>,
      <<42560, 42604, 2, 1>>, <<42624, 42650, 2, 1>>,
      <<42786, 42798, 2, 1>>, <<42802, 42862, 2, 1>>,
      <<42873, 42875, 2, 1>>, <<42877, 42877, 1, -35332>>,
      <<42878, 42886, 2, 1>>, <<42891, 42891, 1, 1>>,
      <<42893, 42893, 1, -42280>>, <<42896, 42898, 2, 1>>,
      <<42902, 42920, 2, 1>>, <<42922, 42922, 1, -42308>>,
      <<42923, 42923, 1, -42319>>, <<42924, 42924, 1, -42315>>,
      <<42925, 42925, 1, -42305>>, <<42926, 42926, 1, -42308>>,
      <<42928, 42928, 1, -42258>>, <<42929, 42929, 1, -42282>>,
      <<42930, 42930, 1, -42261>>, <<42931, 42931, 1, 928>>,
      <<42932, 42946, 2, 1>>, <<42948, 42948, 1, -48>>,
      <<42949, 42949, 1, -42307>>, <<42950, 42950, 1, -35384>>,
      <<42951, 42953, 2, 1>>, <<42960, 42960, 1, 1>>,
      <<42966, 42968, 2, 1>>, <<42997, 42997, 1, 1>>,
      <<65313, 65338, 1, 32>>, <<66560, 66599, 1, 40>>,
      <<66736, 66771, 1, 40>>, <<66928, 66938, 1, 39>>,
      <<66940, 66954, 1, 39>>, <<66956, 66962, 1, 39>>,
      <<66964, 66965, 1, 39>>, <<68736, 68786, 1, 64>>,
      <<71840, 71871, 1, 32>>, <<93760, 93791, 1, 32>>,
      <<125184, 125217, 1, 34>>>>

InLowerRun(c, run) ==
    run[1] <= c /\ c <= run[2] /\ (c - run[1]) % run[3] = 0

\* The lower case of a character that has no rule of its own
SimpleLower(c) ==
    IF \E i \in DOMAIN LowerRuns : InLowerRun(c, LowerRuns[i])
    THEN c + LowerRuns[CHOOSE i \in DOMAIN LowerRuns :
                          InLowerRun(c, LowerRuns[i])][4]
    ELSE c

\* The characters that are case-ignorable, and those that are cased and
\* not case-ignorable, as <<first, last>>
IgnorableRuns ==
    <<<<39, 39>>, <<46, 46>>, <<58, 58>>, <<94, 94>>, <<96, 96>>,
      <<168, 168>>, <<173, 173>>, <<175, 175>>, <<180, 180>>,
      <<183, 184>>, <<688, 879>>, <<884, 885>>, <<890, 890>>,
      <<900, 901>>, <<903, 903>>, <<1155, 1161>>, <<1369, 1369>>,
      <<1375, 1375>>, <<1425, 1469>>, <<1471, 1471>>, <<1473, 1474>>,
      <<1476, 1477>>, <<1479, 1479>>, <<1524, 1524>>, <<1536, 1541>>,
      <<1552, 1562>>, <<1564, 1564>>, <<1600, 1600>>, <<1611, 1631>>,
      <<1648, 1648>>, <<1750, 1757>>, <<1759, 1768>>, <<1770, 1773>>,
      <<1807, 1807>>, <<1809, 1809>>, <<1840, 1866>>, <<1958, 1968>>,
      <<2027, 2037>>, <<2042, 2042>>, <<2045, 2045>>, <<2070, 2093>>,
      <<2137, 2139>>, <<2184, 2184>>, <<2192, 2193>>, <<2200, 2207>>,
      <<2249, 2306>>, <<2362, 2362>>, <<2364, 2364>>, <<2369, 2376>>,
      <<2381, 2381>>, <<2385, 2391>>, <<2402, 2403>>, <<2417, 2417>>,
      <<2433, 2433>>, <<2492, 2492>>, <<2497, 2500>>, <<2509, 2509>>,
      <<2530, 2531>>, <<2558, 2558>>, <<2561, 2562>>, <<2620, 2620>>,
      <<2625, 2626>>, <<2631, 2632>>, <<2635, 2637>>, <<2641, 2641>>,
      <<2672, 2673>>, <<2677, 2677>>, <<2689, 2690>>, <<2748, 2748>>,
      <<2753, 2757>>, <<2759, 2760>>, <<2765, 2765>>, <<2786, 2787>>,
      <<2810, 2815>>, <<2817, 2817>>, <<2876, 2876>>, <<2879, 2879>>,
      <<2881, 2884>>, <<2893, 2893>>, <<2901, 2902>>, <<2914, 2915>>,
      <<2946, 2946>>, <<3008, 3008>>, <<3021, 3021>>, <<3072, 3072>>,
      <<3076, 3076>>, <<3132, 3132>>, <<3134, 3136>>, <<3142, 3144>>,
      <<3146, 3149>>, <<3157, 3158>>, <<3170, 3171>>, <<3201, 3201>>,
      <<3260, 3260>>, <<3263, 3263>>, <<3270, 3270>>, <<3276, 3277>>,
      <<3298, 3299>>, <<3328, 3329>>, <<3387, 3388>>, <<3393, 3396>>,
      <<3405, 3405>>, <<3426, 3427>>, <<3457, 3457>>, <<3530, 3530>>,
      <<3538, 3540>>, <<3542, 3542>>, <<3633, 3633>>, <<3636, 3642>>,
      <<3654, 3662>>, <<3761, 3761>>, <<3764, 3772>>, <<3782, 3782>>,
      <<3784, 3789>>, <<3864, 3865>>, <<3893, 3893>>, <<3895, 3895>>,
      <<3897, 3897>>, <<3953, 3966>>, <<3968, 3972>>, <<3974, 3975>>,
      <<3981, 3991>>, <<3993, 4028>>, <<4038, 4038>>, <<4141, 4144>>,
      <<4146, 4151>>, <<4153, 4154>>, <<4157, 4158>>, <<4184, 4185>>,
      <<4190, 4192>>, <<4209, 4212>>, <<4226, 4226>>, <<4229, 4230>>,
      <<4237, 4237>>, <<4253, 4253>>, <<4348, 4348>>, <<4957, 4959>>,
      <<5906, 5908>>, <<5938, 5939>>, <<5970, 5971>>, <<6002, 6003>>,
      <<6068, 6069>>, <<6071, 6077>>, <<6086, 6086>>, <<6089, 6099>>,
      <<6103, 6103>>, <<6109, 6109>>, <<6155, 6159>>, <<6211, 6211>>,
      <<6277, 6278>>, <<6313, 6313>>, <<6432, 6434>>, <<6439, 6440>>,
      <<6450, 6450>>, <<6457, 6459>>, <<6679, 6680>>, <<6683, 6683>>,
      <<6742, 6742>>, <<6744, 6750>>, <<6752, 6752>>, <<6754, 6754>>,
      <<6757, 6764>>, <<6771, 6780>>, <<6783, 6783>>, <<6823, 6823>>,
      <<6832, 6862>>, <<6912, 6915>>, <<6964, 6964>>, <<6966, 6970>>,
      <<6972, 6972>>, <<6978, 6978>>, <<7019, 7027>>, <<7040, 7041>>,
      <<7074, 7077>>, <<7080, 7081>>, <<7083, 7085>>, <<7142, 7142>>,
      <<7144, 7145>>, <<7149, 7149>>, <<7151, 7153>>, <<7212, 7219>>,
      <<7222, 7223>>, <<7288, 7293>>, <<7376, 7378>>, <<7380, 7392>>,
      <<7394, 7400>>, <<7405, 7405>>, <<7412, 7412>>, <<7416, 7417>>,
      <<7468, 7530>>, <<7544, 7544>>, <<7579, 7679>>, <<8125, 8125>>,
      <<8127, 8129>>, <<8141, 8143>>, <<8157, 8159>>, <<8173, 8175>>,
      <<8189, 8190>>, <<8203, 8207>>, <<8216, 8217>>, <<8228, 8228>>,
      <<8231, 8231>>, <<8234, 8238>>, <<8288, 8292>>, <<8294, 8303>>,
      <<8305, 8305>>, <<8319, 8319>>, <<8336, 8348>>, <<8400, 8432>>,
      <<11388, 11389>>, <<11503, 11505>>, <<11631, 11631>>,
      <<11647, 11647>>, <<11744, 11775>>, <<11823, 11823>>,
      <<12293, 12293>>, <<12330, 12333>>, <<12337, 12341>>,
      <<12347, 12347>>, <<12441, 12446>>, <<12540, 12542>>,
      <<40981, 40981>>, <<42232, 42237>>, <<42508, 42508>>,
      <<42607, 42610>>, <<42612, 42621>>, <<42623, 42623>>,
      <<42652, 42655>>, <<42736, 42737>>, <<42752, 42785>>,
      <<42864, 42864>>, <<42888, 42890>>, <<42994, 42996>>,
      <<43000, 43001>>, <<43010, 43010>>, <<43014, 43014>>,
      <<43019, 43019>>, <<43045, 43046>>, <<43052, 43052>>,
      <<43204, 43205>>, <<43232, 43249>>, <<43263, 43263>>,
      <<43302, 43309>>, <<43335, 43345>>, <<43392, 43394>>,
      <<43443, 43443>>, <<43446, 43449>>, <<43452, 43453>>,
      <<43471, 43471>>, <<43493, 43494>>, <<43561, 43566>>,
      <<43569, 43570>>, <<43573, 43574>>, <<43587, 43587>>,
      <<43596, 43596>>, <<43632, 43632>>, <<43644, 43644>>,
      <<43696, 43696>>, <<43698, 43700>>, <<43703, 43704>>,
      <<43710, 43711>>, <<43713, 43713>>, <<43741, 43741>>,
      <<43756, 43757>>, <<43763, 43764>>, <<43766, 43766>>,
      <<43867, 43871>>, <<43881, 43883>>, <<44005, 44005>>,
      <<44008, 44008>>, <<44013, 44013>>, <<64286, 64286>>,
      <<64434, 64450>>, <<65024, 65039>>, <<65043, 65043>>,
      <<65056, 65071>>, <<65106, 65106>>, <<65109, 65109>>,
      <<65279, 65279>>, <<65287, 65287>>, <<65294, 65294>>,
      <<65306, 65306>>, <<65342, 65342>>, <<65344, 65344>>,
      <<65392, 65392>>, <<65438, 65439>>, <<65507, 65507>>,
      <<65529, 65531>>, <<66045, 66045>>, <<66272, 66272>>,
      <<66422, 66426>>, <<67456, 67461>>, <<67463, 67504>>,
      <<67506, 67514>>, <<68097, 68099>>, <<68101, 68102>>,
      <<68108, 68111>>, <<68152, 68154>>, <<68159, 68159>>,
      <<68325, 68326>>, <<68900, 68903>>, <<69291, 69292>>,
      <<69446, 69456>>, <<69506, 69509>>, <<69633, 69633>>,
      <<69688, 69702>>, <<69744, 69744>>, <<69747, 69748>>,
      <<69759, 69761>>, <<69811, 69814>>, <<69817, 69818>>,
      <<69821, 69821>>, <<69826, 69826>>, <<69837, 69837>>,
      <<69888, 69890>>, <<69927, 69931>>, <<69933, 69940>>,
      <<70003, 70003>>, <<70016, 70017>>, <<70070, 70078>>,
      <<70089, 70092>>, <<70095, 70095>>, <<70191, 70193>>,
      <<70196, 70196>>, <<70198, 70199>>, <<70206, 70206>>,
      <<70367, 70367>>, <<70371, 70378>>, <<70400, 70401>>,
      <<70459, 70460>>, <<70464, 70464>>, <<70502, 70508>>,
      <<70512, 70516>>, <<70712, 70719>>, <<70722, 70724>>,
      <<70726, 70726>>, <<70750, 70750>>, <<70835, 70840>>,
      <<70842, 70842>>, <<70847, 70848>>, <<70850, 70851>>,
      <<71090, 71093>>, <<71100, 71101>>, <<71103, 71104>>,
      <<71132, 71133>>, <<71219, 71226>>, <<71229, 71229>>,
      <<71231, 71232>>, <<71339, 71339>>, <<71341, 71341>>,
      <<71344, 71349>>, <<71351, 71351>>, <<71453, 71455>>,
      <<71458, 71461>>, <<71463, 71467>>, <<71727, 71735>>,
      <<71737, 71738>>, <<71995, 71996>>, <<71998, 71998>>,
      <<72003, 72003>>, <<72148, 72151>>, <<72154, 72155>>,
      <<72160, 72160>>, <<72193, 72202>>, <<72243, 72248>>,
      <<72251, 72254>>, <<72263, 72263>>, <<72273, 72278>>,
      <<72281, 72283>>, <<72330, 72342>>, <<72344, 72345>>,
      <<72752, 72758>>, <<72760, 72765>>, <<72767, 72767>>,
      <<72850, 72871>>, <<72874, 72880>>, <<72882, 72883>>,
      <<72885, 72886>>, <<73009, 73014>>, <<73018, 73018>>,
      <<73020, 73021>>, <<73023, 73029>>, <<73031, 73031>>,
      <<73104, 73105>>, <<73109, 73109>>, <<73111, 73111>>,
      <<73459, 73460>>, <<78896, 78904>>, <<92912, 92916>>,
      <<92976, 92982>>, <<92992, 92995>>, <<94031, 94031>>,
      <<94095, 94111>>, <<94176, 94177>>, <<94179, 94180>>,
      <<110576, 110579>>, <<110581, 110587>>, <<110589, 110590>>,
      <<113821, 113822>>, <<113824, 113827>>, <<118528, 118573>>,
      <<118576, 118598>>, <<119143, 119145>>, <<119155, 119170>>,
      <<119173, 119179>>, <<119210, 119213>>, <<119362, 119364>>,
      <<121344, 121398>>, <<121403, 121452>>, <<121461, 121461>>,
      <<121476, 121476>>, <<121499, 121503>>, <<121505, 121519>>,
      <<122880, 122886>>, <<122888, 122904>>, <<122907, 122913>>,
      <<122915, 122916>>, <<122918, 122922>>, <<123184, 123197>>,
      <<123566, 123566>>, <<123628, 123631>>, <<125136, 125142>>,
      <<125252, 125259>>, <<127995, 127999>>, <<917505, 917505>>,
      <<917536, 917631>>, <<917760, 917999>>>>

CasedRuns ==
    <<<<65, 90>>, <<97, 122>>, <<170, 170>>, <<181, 181>>, <<186, 186>>,
      <<192, 214>>, <<216, 246>>, <<248, 442>>, <<444, 447>>,
      <<452, 659>>, <<661, 687>>, <<880, 883>>, <<886, 887>>,
      <<891, 893>>, <<895, 895>>, <<902, 902>>, <<904, 906>>,
      <<908, 908>>, <<910, 929>>, <<931, 1013>>, <<1015, 1153>>,
      <<1162, 1327>>, <<1329, 1366>>, <<1376, 1416>>, <<4256, 4293>>,
      <<4295, 4295>>, <<4301, 4301>>, <<4304, 4346>>, <<4349, 4351>>,
      <<5024, 5109>>, <<5112, 5117>>, <<7296, 7304>>, <<7312, 7354>>,
      <<7357, 7359>>, <<7424, 7467>>, <<7531, 7543>>, <<7545, 7578>>,
      <<7680, 7957>>, <<7960, 7965>>, <<7968, 8005>>, <<8008, 8013>>,
      <<8016, 8023>>, <<8025, 8025>>, <<8027, 8027>>, <<8029, 8029>>,
      <<8031, 8061>>, <<8064, 8116>>, <<8118, 8124>>, <<8126, 8126>>,
      <<8130, 8132>>, <<8134, 8140>>, <<8144, 8147>>, <<8150, 8155>>,
      <<8160, 8172>>, <<8178, 8180>>, <<8182, 8188>>, <<8450, 8450>>,
      <<8455, 8455>>, <<8458, 8467>>, <<8469, 8469>>, <<8473, 8477>>,
      <<8484, 8484>>, <<8486, 8486>>, <<8488, 8488>>, <<8490, 8493>>,
      <<8495, 8500>>, <<8505, 8505>>, <<8508, 8511>>, <<8517, 8521>>,
      <<8526, 8526>>, <<8544, 8575>>, <<8579, 8580>>, <<9398, 9449>>,
      <<11264, 11387>>, <<11390, 11492>>, <<11499, 11502>>,
      <<11506, 11507>>, <<11520, 11557>>, <<11559, 11559>>,
      <<11565, 11565>>, <<42560, 42605>>, <<42624, 42651>>,
      <<42786, 42863>>, <<42865, 42887>>, <<42891, 42894>>,
      <<42896, 42954>>, <<42960, 42961>>, <<42963, 42963>>,
      <<42965, 42969>>, <<42997, 42998>>, <<43002, 43002>>,
      <<43824, 43866>>, <<43872, 43880>>, <<43888, 43967>>,
      <<64256, 64262>>, <<64275, 64279>>, <<65313, 65338>>,
      <<65345, 65370>>, <<66560, 66639>>, <<66736, 66771>>,
      <<66776, 66811>>, <<66928, 66938>>, <<66940, 66954>>,
      <<66956, 66962>>, <<66964, 66965>>, <<66967, 66977>>,
      <<66979, 66993>>, <<66995, 67001>>, <<67003, 67004>>,
      <<68736, 68786>>, <<68800, 68850>>, <<71840, 71903>>,
      <<93760, 93823>>, <<119808, 119892>>, <<119894, 119964>>,
      <<119966, 119967>>, <<119970, 119970>>, <<119973, 119974>>,
      <<119977, 119980>>, <<119982, 119993>>, <<119995, 119995>>,
      <<119997, 120003>>, <<120005, 120069>>, <<120071, 120074>>,
      <<120077, 120084>>, <<120086, 120092>>, <<120094, 120121>>,
      <<120123, 120126>>, <<120128, 120132>>, <<120134, 120134>>,
      <<120138, 120144>>, <<120146, 120485>>, <<120488, 120512>>,
      <<120514, 120538>>, <<120540, 120570>>, <<120572, 120596>>,
      <<120598, 120628>>, <<120630, 120654>>, <<120656, 120686>>,
      <<120688, 120712>>, <<120714, 120744>>, <<120746, 120770>>,
      <<120772, 120779>>, <<122624, 122633>>, <<122635, 122654>>,
      <<125184, 125251>>, <<127280, 127305>>, <<127312, 127337>>,
      <<127344, 127369>>>>

InRuns(c, runs) == \E i \in DOMAIN runs : runs[i][1] <= c /\ c <= runs[i][2]

\* The nearest character at or before s[i] that is not case-ignorable is
\* cased
RECURSIVE CasedBefore(_, _)
CasedBefore(s, i) ==
    IF i = 0 THEN FALSE
    ELSE IF InRuns(s[i], IgnorableRuns) THEN CasedBefore(s, i - 1)
    ELSE InRuns(s[i], CasedRuns)

\* The nearest character at or after s[i] that is not case-ignorable is
\* cased
RECURSIVE CasedAfter(_, _)
CasedAfter(s, i) ==
    IF i > Len(s) THEN FALSE
    ELSE IF InRuns(s[i], IgnorableRuns) THEN CasedAfter(s, i + 1)
    ELSE InRuns(s[i], CasedRuns)

\* The lower case of s[i]: the capital sigma (931) becomes the final sigma
\* (962) at the end of a word and the sigma (963) elsewhere, the capital I
\* with a dot (304) becomes i and a combining dot
LowerAt(s, i) ==
    IF s[i] = 931
    THEN IF CasedBefore(s, i - 1) /\ ~CasedAfter(s, i + 1)
         THEN <<962>> ELSE <<963>>
    ELSE IF s[i] = 304 THEN <<105, 775>>
    ELSE <<SimpleLower(s[i])>>

RECURSIVE LowerFrom(_, _)
LowerFrom(s, i) ==
    IF i > Len(s) THEN <<>> ELSE LowerAt(s, i) \o LowerFrom(s, i + 1)

\* s.lower()
lower(s) == LowerFrom(s, 1)

\* name in s
Contains(s, name) ==
    \E i \in 0..(Len(s) - Len(name)) : SubSeq(s, i + 1, i + Len(name)) = name

\* The value of a cell that holds an int or a bool
IntValue(n) == [type |-> "int", n |-> n]
BoolValue(b) == [type |-> "bool", b |-> b]

\* The decimal digits of a natural number, as characters
RECURSIVE Digits(_)
Digits(n) ==
    IF n < 10 THEN <<48 + n>> ELSE Append(Digits(n \div 10), 48 + (n % 10))

\* str(value) for a text, an int and a bool
str(value) ==
    CASE value.type = "str" -> value.s
      [] value.type = "int" ->
             IF value.n < 0 THEN <<45>> \o Digits(-value.n)
             ELSE Digits(value.n)
      [] value.type = "bool" ->
             IF value.b THEN <<84, 114, 117, 101>>
             ELSE <<70, 97, 108, 115, 101>>

\* Python's truth value of the value of a cell
TruthyCellValue(value) ==
    CASE value.type = "NoneType" -> FALSE
      [] value.type = "str" -> value.s # <<>>
      [] value.type = "int" -> value.n # 0
      [] value.type = "bool" -> value.b

\* Line 32: the header of each cell of row 1, '' for a cell whose value is
\* false
HeadersOf(cells) ==
    [i \in DOMAIN cells |->
        IF TruthyCellValue(cells[i]) THEN strip(str(cells[i])) ELSE <<>>]

\* Lines 101-105, in their order:
\*   'threat description'
\*   'threat'
\*   'description'
\*   'threats'
\*   'vulnerability'
\*   'risk description'
\*   'risk'
\*   'finding'
\*   'threat scenario'
\*   'scenario description'
possible_names ==
    <<<<116, 104, 114, 101, 97, 116, 32, 100, 101, 115, 99, 114, 105, 112,
        116, 105, 111, 110>>,
      <<116, 104, 114, 101, 97, 116>>,
      <<100, 101, 115, 99, 114, 105, 112, 116, 105, 111, 110>>,
      <<116, 104, 114, 101, 97, 116, 115>>,
      <<118, 117, 108, 110, 101, 114, 97, 98, 105, 108, 105, 116, 121>>,
      <<114, 105, 115, 107, 32, 100, 101, 115, 99, 114, 105, 112, 116,
        105, 111, 110>>,
      <<114, 105, 115, 107>>,
      <<102, 105, 110, 100, 105, 110, 103>>,
      <<116, 104, 114, 101, 97, 116, 32, 115, 99, 101, 110, 97, 114, 105,
        111>>,
      <<115, 99, 101, 110, 97, 114, 105, 111, 32, 100, 101, 115, 99, 114,
        105, 112, 116, 105, 111, 110>>>>

\* any(name in header_lower for name in possible_names)
HoldsName(header_lower) ==
    \E n \in DOMAIN possible_names :
        Contains(header_lower, possible_names[n])

\* identify_column(headers): the 1-based index of the first header whose
\* lower case holds one of possible_names, None when there is none
identify_column(headers) ==
    IF \E i \in DOMAIN headers : HoldsName(lower(headers[i]))
    THEN <<CHOOSE i \in DOMAIN headers :
               /\ HoldsName(lower(headers[i]))
               /\ \A j \in 1..(i - 1) : ~HoldsName(lower(headers[j]))>>
    ELSE <<>>

GeneratorRaises == [raises |-> TRUE, vector |-> PyNone]
GeneratorReturns(v) == [raises |-> FALSE, vector |-> v]

EmptyCell == [type |-> "NoneType", generated |-> GeneratorReturns(PyNone)]
\* generate_vector returns None for a value that is no str (line 83)
NumberCell == [type |-> "int", generated |-> GeneratorReturns(PyNone)]
TextCell(generated) == [type |-> "str", generated |-> generated]

\* The vector strings a generator returns in the model: scored with and
\* without a temporal score, in both versions, and two that fail to score
GeneratedVectors ==
    {Vector(TagV31, V31High),
     Vector(TagV31, V31NoImpact \o <<Seg("E", "P")>>),
     Vector(TagV31, V31High \o <<Seg("E", "P")>>),
     Vector(TagV40, V40High),
     Vector(TagV31, <<Seg("AV", "N"), Seg("AC", "L")>>),
     Vector(TagV31, V31Changed \o <<Seg("CR", "H")>>)}

Cells ==
    {EmptyCell, NumberCell, TextCell(GeneratorRaises),
     TextCell(GeneratorReturns(PyNone))}
        \cup {TextCell(GeneratorReturns(v)) : v \in GeneratedVectors}

\* The rows 1 of the model:
\*   'ID', 'Threat Description'
\*   'Risk Owner', 'Finding'
\*   'ID', 'Owner'
\*   None, '\xa0VULNERABILITY\r\n'
\*   'Brisk'
\*   5, True, 'RIS\u212a'
\* The threat column is found by a whole name, by a name inside a longer
\* text or inside a word, in upper case between white space after an empty
\* cell, after an int and a bool by the lower case of the Kelvin sign,
\* and not at all in the third.
HeaderRows ==
    {<<Str(<<73, 68>>),
       Str(<<84, 104, 114, 101, 97, 116, 32, 68, 101, 115, 99, 114, 105, 112,
         116, 105, 111, 110>>)>>,
     <<Str(<<82, 105, 115, 107, 32, 79, 119, 110, 101, 114>>),
       Str(<<70, 105, 110, 100, 105, 110, 103>>)>>,
     <<Str(<<73, 68>>),
       Str(<<79, 119, 110, 101, 114>>)>>,
     <<PyNone,
       Str(<<160, 86, 85, 76, 78, 69, 82, 65, 66, 73, 76, 73, 84, 89, 13, 10>>)>>,
     <<Str(<<66, 114, 105, 115, 107>>)>>,
     <<IntValue(5),
       BoolValue(TRUE),
       Str(<<82, 73, 83, 8490>>)>>}

Sheets ==
    {[headers |-> h, rows |-> r] :
        h \in HeaderRows,
        r \in SeqsUpTo(Cells, MaxRows)}

\* Python's truth value of a returned vector: None and '' are false
TruthyValue(v) == v.type = "str" /\ v.s # <<>>
\* and of a cell: the number is not 0 and a text is not empty
TruthyCell(cell) == cell.type # "NoneType"

NoCells == [c \in {} |-> <<>>]

\* metrics[key] = value on a dict that keeps the order of its keys
ItemSet(items, key, value) ==
    IF \E i \in DOMAIN items : items[i][1] = key
    THEN [i \in DOMAIN items |->
             IF items[i][1] = key THEN <<key, value>> ELSE items[i]]
    ELSE Append(items, <<key, value>>)

\* The loop of parse_vector_metrics, lines 163-166
RECURSIVE ParseParts(_, _)
ParseParts(parts, items) ==
    IF parts = <<>> THEN Ok(items)
    ELSE IF COLON \notin Range(Head(parts))
    THEN ParseParts(Tail(parts), items)
    ELSE IF Len(split(Head(parts), COLON)) # 2
    THEN Raise(Exc("ValueError", "too many values to unpack", <<>>))
    ELSE ParseParts(Tail(parts),
             ItemSet(items, split(Head(parts), COLON)[1],
                     split(Head(parts), COLON)[2]))

\* parse_vector_metrics(vector_string): the dict as its items in order
parse_vector_metrics(s) == ParseParts(split(s, SLASH), <<>>)

\* save_results, lines 136-146: the cells of the vector string and scores
ScoreCells(results) ==
    (0 :> results.vector_string)
        @@ (1 :> results.base_score[1])
        @@ (2 :> results.base_severity[1])
        @@ (IF "temporal_score" \in results.keys
               /\ Truthy(results.temporal_score)
            THEN 3 :> results.temporal_score[1] ELSE NoCells)
        @@ (IF "environmental_score" \in results.keys
               /\ Truthy(results.environmental_score)
            THEN 4 :> results.environmental_score[1] ELSE NoCells)

\* save_results, lines 150-153: one cell per value of metrics
MetricCells(items) == [c \in 5..(4 + Len(items)) |-> items[c - 4][2]]

\* Lines 149-156: metrics is the outcome of parse_vector_metrics
CellsWithMetrics(cells, metrics) ==
    IF Raised(metrics) THEN cells ELSE cells @@ MetricCells(metrics.val)

\* save_results(row, start_col, results): the cells it writes in the row.
\* An exception ends it and is logged, the cells before it stay written:
\* a result without 'base_score' leaves the vector string alone (line 137).
save_results(results) ==
    IF "base_score" \notin results.keys
    THEN (0 :> results.vector_string)
    ELSE CellsWithMetrics(ScoreCells(results),
                          parse_vector_metrics(results.vector_string.s))

\* Lines 123-127: the texts add_result_columns writes, in their order:
\*   'CVSS Vector'
\*   'Base Score'
\*   'Severity'
\*   'Temporal Score'
\*   'Environmental Score'
\*   'Attack Vector'
\*   'Attack Complexity'
\*   'Privileges Required'
\*   'User Interaction'
\*   'Impact Scores'
ResultHeaders ==
    <<Str(<<67, 86, 83, 83, 32, 86, 101, 99, 116, 111, 114>>),
      Str(<<66, 97, 115, 101, 32, 83, 99, 111, 114, 101>>),
      Str(<<83, 101, 118, 101, 114, 105, 116, 121>>),
      Str(<<84, 101, 109, 112, 111, 114, 97, 108, 32, 83, 99, 111, 114,
            101>>),
      Str(<<69, 110, 118, 105, 114, 111, 110, 109, 101, 110, 116, 97, 108,
            32, 83, 99, 111, 114, 101>>),
      Str(<<65, 116, 116, 97, 99, 107, 32, 86, 101, 99, 116, 111, 114>>),
      Str(<<65, 116, 116, 97, 99, 107, 32, 67, 111, 109, 112, 108, 101,
            120, 105, 116, 121>>),
      Str(<<80, 114, 105, 118, 105, 108, 101, 103, 101, 115, 32, 82, 101,
            113, 117, 105, 114, 101, 100>>),
      Str(<<85, 115, 101, 114, 32, 73, 110, 116, 101, 114, 97, 99, 116,
            105, 111, 110>>),
      Str(<<73, 109, 112, 97, 99, 116, 32, 83, 99, 111, 114, 101, 115>>)>>

\* add_result_columns(start_col) on the cells of row 1, for a start_col of
\* 1 or more: the ten texts are put in the columns start_col ..
\* start_col + 9 and no other cell is touched.  A cell that was never
\* written has the value None.
add_result_columns(cells, start_col) ==
    CASE start_col >= 1 ->
        [column \in 1..(IF Len(cells) > start_col + Len(ResultHeaders) - 1
                        THEN Len(cells)
                        ELSE start_col + Len(ResultHeaders) - 1) |->
            IF column >= start_col
               /\ column <= start_col + Len(ResultHeaders) - 1
            THEN ResultHeaders[column - start_col + 1]
            ELSE IF column \in DOMAIN cells THEN cells[column]
            ELSE PyNone]

\* Lines 25-50: the threat column is found and row 1 gets the result
\* columns from start_col = len(headers) + 1 on, or ValueError leaves
\* process_file through the handler of lines 94-97 with the worksheet as it
\* was loaded
Start ==
    /\ pc = "start"
    /\ \E threat_col \in {identify_column(HeadersOf(sheet.headers))} :
           IF threat_col = <<>>
           THEN /\ pc' = "raised"
                /\ UNCHANGED <<row, sheet>>
           ELSE /\ pc' = "loop"
                /\ row' = 1
                /\ sheet' = [sheet EXCEPT !.headers =
                                 add_result_columns(@, Len(@) + 1)]
    /\ successful' = 0
    /\ failed' = 0
    /\ UNCHANGED <<calc, callVars, pureVars, guiVars, thread, written>>

AtRow == pc = "loop" /\ row \in DOMAIN sheet.rows

\* Lines 56-58: a cell without a value is passed over
SkipRow ==
    /\ AtRow
    /\ ~TruthyCell(sheet.rows[row])
    /\ row' = row + 1
    /\ UNCHANGED <<calc, callVars, pureVars, guiVars, thread,
                   sheet, pc, written, successful, failed>>

\* Line 61: threat_desc[:100] of a number raises TypeError outside the try
\* of lines 63-76; the handler of lines 94-97 raises it again
AbortRow ==
    /\ AtRow
    /\ TruthyCell(sheet.rows[row])
    /\ sheet.rows[row].type # "str"
    /\ pc' = "raised"
    /\ UNCHANGED <<calc, callVars, pureVars, guiVars, thread,
                   sheet, row, written, successful, failed>>

\* Lines 68-70: r is the outcome of calculate_score
Scored(r) ==
    /\ calc' = r.self
    /\ written' = [written EXCEPT ![row] = save_results(r.result)]
    /\ successful' = successful + 1
    /\ UNCHANGED failed

\* Lines 72-73
NotGenerated ==
    /\ written' = [written EXCEPT
                      ![row] = (4 :> Str(<<"Could not generate vector">>))]
    /\ failed' = failed + 1
    /\ UNCHANGED <<calc, successful>>

\* Lines 74-76
RowRaised ==
    /\ failed' = failed + 1
    /\ UNCHANGED <<calc, written, successful>>

\* ProcessRow without the try of lines 63-76: an exception of the generator
\* reaches the handler of lines 94-97, which raises it again
ProcessRowWithoutTry ==
    /\ AtRow
    /\ TruthyCell(sheet.rows[row])
    /\ sheet.rows[row].type = "str"
    /\ IF sheet.rows[row].generated.raises
       THEN /\ pc' = "raised"
            /\ UNCHANGED <<calc, row, written, successful, failed>>
       ELSE /\ IF TruthyValue(sheet.rows[row].generated.vector)
               THEN Scored(calculate_score(calc,
                                           sheet.rows[row].generated.vector))
               ELSE NotGenerated
            /\ row' = row + 1
            /\ UNCHANGED pc
    /\ UNCHANGED <<callVars, pureVars, guiVars, thread, sheet>>

\* Lines 60-76 for a text
ProcessRow ==
    /\ AtRow
    /\ TruthyCell(sheet.rows[row])
    /\ sheet.rows[row].type = "str"
    /\ IF sheet.rows[row].generated.raises THEN RowRaised
       ELSE IF TruthyValue(sheet.rows[row].generated.vector)
       THEN Scored(calculate_score(calc, sheet.rows[row].generated.vector))
       ELSE NotGenerated
    /\ row' = row + 1
    /\ UNCHANGED <<callVars, pureVars, guiVars, thread, sheet, pc>>

\* Lines 79-92: after the last row the workbook is saved
Save ==
    /\ pc = "loop"
    /\ row = Len(sheet.rows) + 1
    /\ pc' = "done"
    /\ UNCHANGED <<calc, callVars, pureVars, guiVars, thread,
                   sheet, row, written, successful, failed>>

InitBatch ==
    /\ calc = NewCalculator
    /\ NoGui
    /\ NoCall
    /\ NoThreads
    /\ sheet \in Sheets
    /\ pc = "start"
    /\ row = 0
    /\ written = [i \in DOMAIN sheet.rows |-> NoCells]
    /\ successful = 0
    /\ failed = 0
    /\ NoApplication

NextBatch ==
    \/ Start
    \/ SkipRow
    \/ AbortRow
    \/ ProcessRow
    \/ Save

SpecBatch == InitBatch /\ [][NextBatch]_vars

(***************************************************************************)
(* SpecSeverity: the two severity functions applied to one score.  The     *)
(* argument is the score in tenths, k for the float k / 10.                *)
(***************************************************************************)
ScoresInTenths == 0..(10 * 10)

InitSeverity ==
    /\ calc = NewCalculator
    /\ NoGui
    /\ NoCall
    /\ NoThreads
    /\ NoBatch
    /\ argument \in ScoresInTenths
    /\ returned = [v31 |-> <<>>, v40 |-> <<>>]

SeverityV31 ==
    /\ returned.v31 = <<>>
    /\ returned' = [returned EXCEPT
                       !.v31 = <<get_v31_severity(Tenths(argument))>>]
    /\ UNCHANGED <<calc, callVars, thread, batchVars, guiVars, argument>>

SeverityV40 ==
    /\ returned.v40 = <<>>
    /\ returned' = [returned EXCEPT
                       !.v40 = <<get_v40_severity(Tenths(argument))>>]
    /\ UNCHANGED <<calc, callVars, thread, batchVars, guiVars, argument>>

NextSeverity == SeverityV31 \/ SeverityV40

SpecSeverity == InitSeverity /\ [][NextSeverity]_vars

(***************************************************************************)
(* SpecGui: the window of CVSSCalculatorGUI.  A click is queued when the   *)
(* user makes it and is dispatched by the event loop: by mainloop when no  *)
(* handler runs, and by root.update(), which update_status and             *)
(* update_progress call, inside a handler.  A dispatched click on a button *)
(* runs the button's command when the button is not disabled.  A handler   *)
(* that was entered stays on the stack until it returns; every position of *)
(* a handler modelled here is a call of root.update(), which returns when  *)
(* no click is pending.                                                    *)
(***************************************************************************)
MaxDepth == 3       \* handlers entered and not returned, at most
MaxPending == 2     \* clicks queued, at most
MaxUpdates == 3     \* calls of root.update() during ExcelProcessor.process_file

\* The variables of the other specifications
otherVars == <<calc, callVars, thread, batchVars, pureVars>>

\* disable_inputs, enable_inputs: the state of the three controls after
disable_inputs ==
    [select_button |-> "disabled", process_button |-> "disabled",
     file_path_entry |-> "disabled"]
enable_inputs ==
    [select_button |-> "normal", process_button |-> "normal",
     file_path_entry |-> "normal"]

\* The paths the file dialog returns: none chosen, or a file
ChosenPaths == {"", "threats.xlsx"}

\* A handler on the stack: the method, the root.update() it is in, and the
\* number of root.update() calls of ExcelProcessor.process_file yet to come
Frame(fn, at, updates) == [fn |-> fn, at |-> at, updates |-> updates]

Top == stack[Len(stack)]
Pop == SubSeq(stack, 1, Len(stack) - 1)
Replace(frame) == [stack EXCEPT ![Len(stack)] = frame]

\* The user clicks a button
Click(button) ==
    /\ Len(events) < MaxPending
    /\ events' = Append(events, button)
    /\ UNCHANGED <<controls, file_path_var, stack>>
    /\ UNCHANGED otherVars

ClickBrowse == Click("select_button")
ClickProcess == Click("process_button")

\* A click on a disabled button is dispatched: no command runs
DispatchDisabled ==
    /\ events # <<>>
    /\ controls[Head(events)] = "disabled"
    /\ events' = Tail(events)
    /\ UNCHANGED <<controls, file_path_var, stack>>
    /\ UNCHANGED otherVars

\* browse_file, lines 98-111: without a file chosen nothing changes;
\* with one, the path is set, Process is enabled and update_status is called
browse_file(file_path) ==
    IF file_path = "" THEN UNCHANGED <<controls, file_path_var, stack>>
    ELSE /\ file_path_var' = file_path
         /\ controls' = [controls EXCEPT !.process_button = "normal"]
         /\ stack' = Append(stack, Frame("browse_file", "line 111", 0))

\* A click on Browse is dispatched while Browse is enabled
DispatchBrowse ==
    /\ events # <<>>
    /\ Head(events) = "select_button"
    /\ controls.select_button = "normal"
    /\ Len(stack) < MaxDepth
    /\ events' = Tail(events)
    /\ \E file_path \in ChosenPaths : browse_file(file_path)
    /\ UNCHANGED otherVars

\* process_file, lines 119-130: without a path, or with the path of a file
\* that does not exist, a message box is shown and the method returns;
\* else update_status is called, before disable_inputs
process_file(exists) ==
    IF file_path_var = "" \/ ~exists THEN UNCHANGED stack
    ELSE stack' = Append(stack, Frame("process_file", "line 130", 0))

\* A click on Process is dispatched while Process is enabled
DispatchProcess ==
    /\ events # <<>>
    /\ Head(events) = "process_button"
    /\ controls.process_button = "normal"
    /\ Len(stack) < MaxDepth
    /\ events' = Tail(events)
    /\ \E exists \in BOOLEAN : process_file(exists)
    /\ UNCHANGED <<controls, file_path_var>>
    /\ UNCHANGED otherVars

\* root.update() of the handler on top returns
Returning(fn, at) ==
    /\ stack # <<>>
    /\ Top.fn = fn
    /\ Top.at = at
    /\ events = <<>>

\* browse_file, line 111: update_status returns, and so does browse_file
BrowseReturns ==
    /\ Returning("browse_file", "line 111")
    /\ stack' = Pop
    /\ UNCHANGED <<controls, file_path_var, events>>
    /\ UNCHANGED otherVars

\* process_file, lines 130-135: update_status returns, disable_inputs, and
\* ExcelProcessor.process_file reaches its first log_progress, with n more
\* root.update() calls to come
DisableInputs ==
    /\ Returning("process_file", "line 130")
    /\ controls' = disable_inputs
    /\ \E n \in 0..(MaxUpdates - 1) :
           stack' = Replace(Frame("process_file", "log_progress", n))
    /\ UNCHANGED <<file_path_var, events>>
    /\ UNCHANGED otherVars

\* ExcelProcessor.log_progress: one root.update() returns, the next is called
LogProgress ==
    /\ Returning("process_file", "log_progress")
    /\ Top.updates > 0
    /\ stack' = Replace(Frame("process_file", "log_progress", Top.updates - 1))
    /\ UNCHANGED <<controls, file_path_var, events>>
    /\ UNCHANGED otherVars

\* process_file, lines 140-157: ExcelProcessor.process_file has returned or
\* raised, the message box was shown; enable_inputs, then update_status
EnableInputs ==
    /\ Returning("process_file", "log_progress")
    /\ Top.updates = 0
    /\ controls' = enable_inputs
    /\ stack' = Replace(Frame("process_file", "line 157", 0))
    /\ UNCHANGED <<file_path_var, events>>
    /\ UNCHANGED otherVars

\* process_file, line 157: update_status returns, and so does process_file
ProcessReturns ==
    /\ Returning("process_file", "line 157")
    /\ stack' = Pop
    /\ UNCHANGED <<controls, file_path_var, events>>
    /\ UNCHANGED otherVars

InitGui ==
    /\ calc = NewCalculator
    /\ NoGui
    /\ NoCall
    /\ NoThreads
    /\ NoBatch
    /\ NoApplication

NextGui ==
    \/ ClickBrowse
    \/ ClickProcess
    \/ DispatchDisabled
    \/ DispatchBrowse
    \/ DispatchProcess
    \/ BrowseReturns
    \/ DisableInputs
    \/ LogProgress
    \/ EnableInputs
    \/ ProcessReturns

SpecGui == InitGui /\ [][NextGui]_vars

(***************************************************************************)
(* What the specification says of a vector string: its tag, its segments,  *)
(* the metrics of a version and the legal values of each.                  *)
(***************************************************************************)
\* The '/'-separated pieces of a text: the tag, then the segments
Pieces(v) == split(v.s, SLASH)
LeadingTag(v) == Pieces(v)[1]
Segments(v) == Tail(Pieces(v))

HasSupportedTag(v) == v.type = "str" /\ LeadingTag(v) \in {TagV31, TagV40}

\* A segment KEY:VALUE
WellFormedSegment(seg) ==
    Len(seg) = 3 /\ seg[1] # COLON /\ seg[2] = COLON /\ seg[3] # COLON

\* A supported tag and one segment at least, each of them KEY:VALUE
WellFormed(v) ==
    /\ HasSupportedTag(v)
    /\ Segments(v) # <<>>
    /\ \A i \in DOMAIN Segments(v) : WellFormedSegment(Segments(v)[i])

KeysOf(v) == {K(Segments(v)[i][1]) : i \in DOMAIN Segments(v)}

NotDefined == {K("X")}
V31Requirement == {K("X"), K("H"), K("M"), K("L")}

\* The legal values of every CVSS v3.1 metric
V31Legal ==
    K("AV") :> DOMAIN V31_AV @@ K("AC") :> DOMAIN V31_AC
    @@ K("PR") :> DOMAIN V31_PR @@ K("UI") :> DOMAIN V31_UI
    @@ K("S") :> {K("U"), K("C")} @@ K("C") :> DOMAIN V31_CIA
    @@ K("I") :> DOMAIN V31_CIA @@ K("A") :> DOMAIN V31_CIA
    @@ K("E") :> DOMAIN V31_E @@ K("RL") :> DOMAIN V31_RL
    @@ K("RC") :> DOMAIN V31_RC
    @@ K("CR") :> V31Requirement @@ K("IR") :> V31Requirement
    @@ K("AR") :> V31Requirement
    @@ K("MAV") :> NotDefined \cup DOMAIN V31_AV
    @@ K("MAC") :> NotDefined \cup DOMAIN V31_AC
    @@ K("MPR") :> NotDefined \cup DOMAIN V31_PR
    @@ K("MUI") :> NotDefined \cup DOMAIN V31_UI
    @@ K("MS") :> NotDefined \cup {K("U"), K("C")}
    @@ K("MC") :> NotDefined \cup DOMAIN V31_CIA
    @@ K("MI") :> NotDefined \cup DOMAIN V31_CIA
    @@ K("MA") :> NotDefined \cup DOMAIN V31_CIA

\* The legal values of every CVSS v4.0 metric
V40Legal ==
    K("AV") :> DOMAIN V40_AV @@ K("AC") :> DOMAIN V40_AC
    @@ K("AT") :> DOMAIN V40_AT @@ K("PR") :> DOMAIN V40_PR
    @@ K("UI") :> DOMAIN V40_UI
    @@ K("VC") :> DOMAIN V40_IMPACT @@ K("VI") :> DOMAIN V40_IMPACT
    @@ K("VA") :> DOMAIN V40_IMPACT @@ K("SC") :> DOMAIN V40_IMPACT
    @@ K("SI") :> DOMAIN V40_IMPACT @@ K("SA") :> DOMAIN V40_IMPACT
    @@ K("E") :> DOMAIN V40_E
    @@ K("CR") :> DOMAIN V40_REQ @@ K("IR") :> DOMAIN V40_REQ
    @@ K("AR") :> DOMAIN V40_REQ
    @@ K("MAV") :> NotDefined \cup DOMAIN V40_AV
    @@ K("MAC") :> NotDefined \cup DOMAIN V40_AC
    @@ K("MAT") :> NotDefined \cup DOMAIN V40_AT
    @@ K("MPR") :> NotDefined \cup DOMAIN V40_PR
    @@ K("MUI") :> NotDefined \cup DOMAIN V40_UI
    @@ K("MVC") :> NotDefined \cup DOMAIN V40_IMPACT
    @@ K("MVI") :> NotDefined \cup DOMAIN V40_IMPACT
    @@ K("MVA") :> NotDefined \cup DOMAIN V40_IMPACT
    @@ K("S") :> {K("X"), K("N"), K("P")}
    @@ K("AU") :> {K("X"), K("N"), K("Y")}
    @@ K("R") :> {K("X"), K("A"), K("U"), K("I")}
    @@ K("U") :> {K("X"), K("Clear"), K("Green"), K("Amber"), K("Red")}

\* The legal values and the base-required metrics of the version of v's tag
LegalOf(v) == IF LeadingTag(v) = TagV31 THEN V31Legal ELSE V40Legal
RequiredOf(v) ==
    IF LeadingTag(v) = TagV31 THEN {K(m) : m \in Range(V31_base_metrics)}
    ELSE {K(m) : m \in Range(V40_base_metrics)}

MissingOf(v) == RequiredOf(v) \ KeysOf(v)

\* The segments of v whose key is a metric of the version and whose value is
\* not legal for it
IllegalSegments(v) ==
    {i \in DOMAIN Segments(v) :
        /\ K(Segments(v)[i][1]) \in DOMAIN LegalOf(v)
        /\ K(Segments(v)[i][3]) \notin LegalOf(v)[K(Segments(v)[i][1])]}

UnknownKeys(v) == KeysOf(v) \ DOMAIN LegalOf(v)

HasDuplicateKey(v) ==
    \E i, j \in DOMAIN Segments(v) :
        i < j /\ Segments(v)[i][1] = Segments(v)[j][1]

\* A valid vector: well formed, no key twice, only metrics of the version,
\* every base-required metric there, every value legal
ValidVector(v) ==
    /\ WellFormed(v)
    /\ ~HasDuplicateKey(v)
    /\ UnknownKeys(v) = {}
    /\ MissingOf(v) = {}
    /\ IllegalSegments(v) = {}

\* The error message names the word w.  The fixed texts of the messages hold
\* no metric and no value; a KeyError's message is its key.
Names(r, w) == IsError(r) /\ r.error.arg = w

\* An error result that carries a message and the input it was given
ErrorFor(r, v) ==
    /\ IsError(r)
    /\ r.error # NoMsg
    /\ "vector_string" \in r.keys
    /\ r.vector_string = v

(***************************************************************************)
(* SpecRoundTrip: a metric mapping is serialized by the serializer of its  *)
(* version and the vector string is parsed again.  The mappings hold every *)
(* base metric of the version and up to MaxOptional of its other metrics,  *)
(* or up to MaxOptional metrics of the version in all (none among them),   *)
(* every value legal.                                                      *)
(***************************************************************************)
MaxOptional == 2

\* The dict of a sequence of KEY:VALUE segments with distinct keys
MetricsOfSegs(segs) ==
    [k \in {K(segs[i][1]) : i \in DOMAIN segs} |->
        K(segs[CHOOSE i \in DOMAIN segs : K(segs[i][1]) = k][3])]

\* The subsets of at most n elements of the set keys
RECURSIVE SubsetsUpTo(_, _)
SubsetsUpTo(keys, n) ==
    IF n = 0 THEN {{}}
    ELSE LET smaller == SubsetsUpTo(keys, n - 1)
         IN smaller \cup {c \cup {k} : c \in smaller, k \in keys}

\* The dicts over at most n keys of the set keys, every value legal
LegalMappings(legal, keys, n) ==
    UNION {{f \in [ks -> UNION {legal[k] : k \in ks}] :
               \A k \in ks : f[k] \in legal[k]} :
           ks \in SubsetsUpTo(keys, n)}

\* The mappings of a version: every metric of a base vector with at most n
\* other metrics, and at most n metrics of any kind
Mappings(legal, bases, n) ==
    UNION {{MetricsOfSegs(base) @@ optional :
               optional \in LegalMappings(legal,
                               DOMAIN legal \ DOMAIN MetricsOfSegs(base), n)} :
           base \in bases}
        \cup LegalMappings(legal, DOMAIN legal, n)

V31Mappings(n) == Mappings(V31Legal, {V31High, V31Changed}, n)
V40Mappings(n) == Mappings(V40Legal, {V40High, V40NoImpact}, n)

InitRoundTrip ==
    /\ calc = NewCalculator
    /\ NoGui
    /\ NoCall
    /\ NoThreads
    /\ NoBatch
    /\ argument \in {[version |-> "3.1", metrics |-> m] :
                        m \in V31Mappings(MaxOptional)}
                  \cup {[version |-> "4.0", metrics |-> m] :
                        m \in V40Mappings(MaxOptional)}
    /\ returned = [vector_string |-> PyNone, metrics |-> <<>>]

\* create_v31_vector_string or create_v40_vector_string of the mapping
Serialize ==
    /\ returned.vector_string = PyNone
    /\ returned' = [returned EXCEPT !.vector_string =
                       IF argument.version = "3.1"
                       THEN create_v31_vector_string(argument.metrics)
                       ELSE create_v40_vector_string(argument.metrics)]
    /\ UNCHANGED <<calc, callVars, thread, batchVars, guiVars, argument>>

\* parse_vector of the vector string: its outcome
Parse ==
    /\ returned.vector_string # PyNone
    /\ returned.metrics = <<>>
    /\ returned' = [returned EXCEPT
                       !.metrics = <<parse_vector(returned.vector_string.s)>>]
    /\ UNCHANGED <<calc, callVars, thread, batchVars, guiVars, argument>>

NextRoundTrip == Serialize \/ Parse

SpecRoundTrip == InitRoundTrip /\ [][NextRoundTrip]_vars

(***************************************************************************)
(* The base score applied on its own, to a base vector and to the same     *)
(* vector with one impact metric raised (SpecMonotone).  argument is the   *)
(* version, the segments of the vector and the position of an impact       *)
(* metric of it whose value is N or L.                                     *)
(***************************************************************************)
V31ImpactPositions == 6..8
V40ImpactPositions == 6..11

\* The next value of an impact metric: N -> L, L -> H
RaisedValue(v) == IF v = "N" THEN "L" ELSE "H"

\* segs with the impact metric at position i raised by one step
RaisedAt(segs, i) == WithValue(segs, i, RaisedValue(segs[i][3]))

Raisable(bases, positions) ==
    {<<b, i>> \in bases \X positions : b[i][3] \in {"N", "L"}}

\* calculate_v31_base_score or calculate_v40_base_score on the calculator
\* self for the metrics of segs: the outcome and the calculator after it.
\* Only the first stores in the calculator (lines 149 and 153).
BaseScoreOf(self, version, segs) ==
    IF version = "3.1"
    THEN calculate_v31_base_score(self, MetricsOfSegs(segs))
    ELSE Ret(calculate_v40_base_score(MetricsOfSegs(segs)), self)

InitMonotone ==
    /\ calc = NewCalculator
    /\ NoGui
    /\ NoCall
    /\ NoThreads
    /\ NoBatch
    /\ \/ argument \in
              {[version |-> "3.1", segs |-> x[1], raised |-> x[2]] :
                  x \in Raisable(V31AllBases, V31ImpactPositions)}
       \/ argument \in
              {[version |-> "4.0", segs |-> x[1], raised |-> x[2]] :
                  x \in Raisable(V40SomeBases, V40ImpactPositions)}
    /\ returned = [base_score |-> <<>>, raised_score |-> <<>>]

\* The base score of the vector
ScoreVector ==
    /\ returned.base_score = <<>>
    /\ \E r \in {BaseScoreOf(calc, argument.version, argument.segs)} :
           /\ returned' = [returned EXCEPT !.base_score = <<r.val>>]
           /\ calc' = r.self
    /\ UNCHANGED <<callVars, thread, batchVars, guiVars, argument>>

\* The base score of the vector with the impact metric raised
ScoreRaised ==
    /\ returned.raised_score = <<>>
    /\ \E r \in {BaseScoreOf(calc, argument.version,
                            RaisedAt(argument.segs, argument.raised))} :
           /\ returned' = [returned EXCEPT !.raised_score = <<r.val>>]
           /\ calc' = r.self
    /\ UNCHANGED <<callVars, thread, batchVars, guiVars, argument>>

NextMonotone == ScoreVector \/ ScoreRaised

SpecMonotone == InitMonotone /\ [][NextMonotone]_vars

(***************************************************************************)
(* Claims on one call.                                                     *)
(***************************************************************************)
\* C4: score computation cannot fail on a valid vector: for every vector
\* whose base-required metrics are all present with legal values and whose
\* optional metrics all have legal values, calculate_score returns a score
\* result, never an error result.
ValidVectorIsScored ==
    called /\ ValidVector(vector_string) => ~IsError(result)

\* C5: for every input that is no value, is empty, has no supported tag, has
\* a tag and no metrics or is not well formed, calculate_score returns an
\* error result that carries a message and the original input.
InvalidInputGivesErrorResult ==
    called /\ ~WellFormed(vector_string) => ErrorFor(result, vector_string)

\* C6: for a vector with a supported tag that lacks base-required metrics,
\* calculate_score reports a failure that names every missing metric.
FailureNamesEveryMissingMetric ==
    called /\ WellFormed(vector_string) /\ MissingOf(vector_string) # {}
        => /\ IsError(result)
           /\ \A k \in MissingOf(vector_string) : Names(result, k)

\* C7: for every vector in which some metric has a value outside its legal
\* set, calculate_score reports a failure naming the metric and the value
\* instead of returning scores.
IllegalValueIsReported ==
    called /\ WellFormed(vector_string) /\ IllegalSegments(vector_string) # {}
        => /\ IsError(result)
           /\ \E i \in IllegalSegments(vector_string) :
                /\ Names(result, K(Segments(vector_string)[i][1]))
                /\ Names(result, K(Segments(vector_string)[i][3]))

\* C8: a vector string in which one metric key occurs in two segments is
\* rejected with a failure.
DuplicateKeyIsRejected ==
    called /\ WellFormed(vector_string) /\ HasDuplicateKey(vector_string)
        => IsError(result)

\* C9: a vector string with a metric key that is no metric of the detected
\* version is rejected with a failure.
UnknownKeyIsRejected ==
    called /\ WellFormed(vector_string) /\ UnknownKeys(vector_string) # {}
        => IsError(result)

\* C10: a vector string whose leading tag is not exactly CVSS:3.1 or
\* CVSS:4.0 is rejected as an unsupported version and is never scored.
OtherTagIsUnsupported ==
    called /\ vector_string.type = "str" /\ ~HasSupportedTag(vector_string)
        => /\ IsError(result)
           /\ result.error.text = "Unsupported CVSS version"

\* C11: every '/'-separated segment after the version tag holds exactly one
\* ':'; a vector with a segment that has none (an empty segment of '//' or
\* of a trailing '/' among them) or more than one is rejected.
MalformedSegmentIsRejected ==
    /\ called
    /\ HasSupportedTag(vector_string)
    /\ \E i \in DOMAIN Segments(vector_string) :
           ~WellFormedSegment(Segments(vector_string)[i])
    => IsError(result)

\* The keys of the KEY:VALUE segments of a vector
PresentKeys(v) ==
    {K(Segments(v)[i][1]) :
        i \in {j \in DOMAIN Segments(v) : WellFormedSegment(Segments(v)[j])}}

TemporalKeys == {K("E"), K("RL"), K("RC")}
ThreatKeys == {K("E")}
RequirementKeys == {K("CR"), K("IR"), K("AR")}
V31ModifiedKeys ==
    {K("MAV"), K("MAC"), K("MPR"), K("MUI"), K("MS"), K("MC"), K("MI"),
     K("MA")}
V40ModifiedKeys ==
    {K("MAV"), K("MAC"), K("MAT"), K("MPR"), K("MUI"), K("MVC"), K("MVI"),
     K("MVA")}

\* The requirement and modified metrics of the version of a score result
EnvironmentalKeys(r) ==
    RequirementKeys
        \cup (IF r.version = "3.1" THEN V31ModifiedKeys ELSE V40ModifiedKeys)

ScoreResult == called /\ ~IsError(result)

\* C12: in every score result, temporal_score (v3.1) is null when none of
\* E, RL, RC is in the vector, threat_score (v4.0) is null when E is not in
\* the vector, and environmental_score is null when no requirement or
\* modified metric is in the vector.
OptionalScoreNullWithoutItsMetrics ==
    ScoreResult =>
        /\ result.version = "3.1"
              /\ PresentKeys(vector_string) \cap TemporalKeys = {}
           => result.temporal_score = <<>>
        /\ result.version = "4.0"
              /\ PresentKeys(vector_string) \cap ThreatKeys = {}
           => result.threat_score = <<>>
        /\ PresentKeys(vector_string) \cap EnvironmentalKeys(result) = {}
           => result.environmental_score = <<>>

\* A v3.1 score result of a vector without temporal and environmental
\* metrics, both scores null
V31ScoredWithoutOptionalMetrics ==
    /\ ScoreResult
    /\ result.version = "3.1"
    /\ PresentKeys(vector_string)
           \cap (TemporalKeys \cup EnvironmentalKeys(result)) = {}
    /\ "temporal_score" \in result.keys
    /\ result.temporal_score = <<>>
    /\ result.environmental_score = <<>>

\* The severity band of a score: None for 0, then the half-open intervals
\* up to 4.0, 7.0 and 9.0, Critical from 9.0
SeverityBand(score) ==
    IF score = FloatZero THEN "None"
    ELSE IF FloatLt(score, FloatInt(4)) THEN "Low"
    ELSE IF FloatLt(score, FloatInt(7)) THEN "Medium"
    ELSE IF FloatLt(score, FloatInt(9)) THEN "High"
    ELSE "Critical"

\* A score field and its severity field: the band of the score, null only
\* with a null score
Paired(score, severity) ==
    IF score = <<>> THEN severity = <<>>
    ELSE severity = <<SeverityBand(score[1])>>

\* C13: in every score result each score that is not null (base, temporal,
\* threat, environmental) is paired with the severity band derived from
\* that score alone, a score of 0 with the band None, and a severity field
\* is null only when its score is null.
EveryScoreHasItsSeverity ==
    ScoreResult =>
        /\ Paired(result.base_score, result.base_severity)
        /\ Paired(result.temporal_score, result.temporal_severity)
        /\ Paired(result.threat_score, result.threat_severity)
        /\ Paired(result.environmental_score, result.environmental_severity)

\* C16: every score result, of a v3.1 vector and of a v4.0 vector alike,
\* carries the fields impact_score and exploitability_score, and they hold
\* the sub-scores computed for that vector (numbers, never null).
ScoreResultCarriesSubScores ==
    ScoreResult =>
        /\ {"impact_score", "exploitability_score"} \subseteq result.keys
        /\ result.impact_score # <<>>
        /\ result.exploitability_score # <<>>

\* C17: the v4.0 vector with every impact metric High and the easiest
\* exploitability, CVSS:4.0/AV:N/AC:L/AT:N/PR:N/UI:N/VC:H/VI:H/VA:H/SC:H/
\* SI:H/SA:H, is scored with the base score 10.0 and the severity Critical.
V40AllHighScoresTen ==
    called /\ vector_string = Vector(TagV40, V40High)
        => /\ ~IsError(result)
           /\ result.base_score = <<Tenths(10 * 10)>>
           /\ result.base_severity = <<"Critical">>

(***************************************************************************)
(* Claims on a sequence of calls.                                          *)
(***************************************************************************)
\* C2: the engine keeps no state across calls: after any sequence of
\* calculate_score calls the fields last_impact_score and
\* last_exploitability_score have the values they had before the first call.
FieldsKeepInitialValues ==
    /\ calc.last_impact_score = NewCalculator.last_impact_score
    /\ calc.last_exploitability_score = NewCalculator.last_exploitability_score

\* The metrics of the CVSS v3.1 vectors a call may be made for
V31MetricsOfCalls ==
    {parse_vector(v.s).val :
        v \in {w \in CallInputs : /\ w.type = "str"
                                  /\ startswith(w.s, TagV31)
                                  /\ ~Raised(parse_vector(w.s))}}

\* metrics has both sub-scores
HasSubScores(metrics) ==
    /\ ~Raised(V31ImpactSub(metrics))
    /\ ~Raised(calculate_v31_exploitability(metrics))

\* The two fields holding the sub-scores of metrics
SubScoresOf(metrics) ==
    [last_impact_score |-> V31ImpactSub(metrics).val,
     last_exploitability_score |-> calculate_v31_exploitability(metrics).val]

\* C19: after any sequence of calculate_score calls, failing ones included,
\* last_impact_score and last_exploitability_score are a pair computed from
\* one and the same vector (or the pair the calculator began with): a
\* failing call leaves both unchanged, it never updates only one of them.
LastScoresAreOfOneVector ==
    \/ calc = NewCalculator
    \/ \E metrics \in V31MetricsOfCalls :
           HasSubScores(metrics) /\ calc = SubScoresOf(metrics)

(***************************************************************************)
(* Claims on concurrent calls.                                             *)
(***************************************************************************)
\* What a call for v alone on a new calculator returns
AloneResult(v) == calculate_score(NewCalculator, v).result

\* Two calls for different CVSS v3.1 vectors
DifferentV31Calls ==
    /\ thread[1].vector_string # thread[2].vector_string
    /\ \A t \in Threads : thread[t].vector_string.type = "str"
                          /\ LeadingTag(thread[t].vector_string) = TagV31

\* C1: when two calculate_score calls for different CVSS v3.1 vectors run
\* concurrently on one shared calculator, under every interleaving the
\* impact_score and exploitability_score of each call's result are the
\* sub-scores of that call's own vector.
EachCallReturnsOwnSubScores ==
    DifferentV31Calls =>
        \A t \in Threads :
            thread[t].pc = "done" /\ ~IsError(thread[t].result) =>
                /\ thread[t].result.impact_score
                       = AloneResult(thread[t].vector_string).impact_score
                /\ thread[t].result.exploitability_score
                       = AloneResult(thread[t].vector_string).exploitability_score

(***************************************************************************)
(* Claims on a batch.                                                      *)
(***************************************************************************)
\* The vector of row i was not generated because the generator raised, or
\* was generated and its score computation ended in an error result
RowFailed(i) ==
    /\ sheet.rows[i].type = "str"
    /\ \/ sheet.rows[i].generated.raises
       \/ /\ TruthyValue(sheet.rows[i].generated.vector)
          /\ IsError(AloneResult(sheet.rows[i].generated.vector))

\* The loop went through lines 60-76 for row i
RowProcessed(i) == i < row

OnlyTextsAfter(i) ==
    \A j \in (i + 1)..Len(sheet.rows) : sheet.rows[j].type # "int"

ScoreWritten(i) == {1, 2} \subseteq DOMAIN written[i]

SuccessfulCountsRowsWithScore ==
    pc = "done" =>
        successful = Cardinality({i \in DOMAIN sheet.rows : ScoreWritten(i)})

(***************************************************************************)
(* Claims on the severity functions.                                       *)
(***************************************************************************)
\* The band of the score k / 10
BandOfTenths(k) ==
    IF k = 0 THEN "None"
    ELSE IF k < 40 THEN "Low"
    ELSE IF k < 70 THEN "Medium"
    ELSE IF k < 90 THEN "High"
    ELSE "Critical"

\* C14: the severity functions of both versions map every score of [0, 10]
\* in steps of 0.1 to one band, 0 to None, (0, 4.0) to Low, [4.0, 7.0) to
\* Medium, [7.0, 9.0) to High and [9.0, 10.0] to Critical, so 4.0, 7.0 and
\* 9.0 fall in the higher band; the two functions agree on every score.
SeverityIsTheBandOfTheScore ==
    /\ returned.v31 # <<>> => returned.v31 = <<BandOfTenths(argument)>>
    /\ returned.v40 # <<>> => returned.v40 = <<BandOfTenths(argument)>>
    /\ returned.v31 # <<>> /\ returned.v40 # <<>>
           => returned.v31 = returned.v40

\* Both functions applied to the score 4.0, a boundary, gave Medium
BoundaryScoreClassified ==
    /\ argument = 40
    /\ returned.v31 = <<"Medium">>
    /\ returned.v40 = <<"Medium">>

(***************************************************************************)
(* Claims on the serializers and the parser.                               *)
(***************************************************************************)
\* C15: round trip.  For every metric mapping whose keys are metrics of the
\* version and whose values are legal, parsing the vector string that the
\* serializer of the version makes of it gives the mapping again, the same
\* keys with the same values, for v3.1 and for v4.0.
ParseOfSerializedIsTheMapping ==
    returned.metrics # <<>> => returned.metrics = <<Ok(argument.metrics)>>

\* C15 as it holds: the round trip of every such mapping that holds one
\* metric at least, every validated mapping among them.  (The mapping
\* without metrics is serialized to the bare tag, a vector string without
\* metrics, which the parser rejects.)
ParseOfSerializedIsTheMappingWithMetrics ==
    returned.metrics # <<>> /\ DOMAIN argument.metrics # {}
        => returned.metrics = <<Ok(argument.metrics)>>

\* A v4.0 mapping with a supplemental and a modified metric went round
V40MappingWentRound ==
    /\ argument.version = "4.0"
    /\ {K("AU"), K("MVC")} \subseteq DOMAIN argument.metrics
    /\ returned.metrics # <<>>
    /\ ~Raised(returned.metrics[1])
    /\ DOMAIN returned.metrics[1].val = DOMAIN argument.metrics

(***************************************************************************)
(* Claims on the base score.                                               *)
(***************************************************************************)
BothScored == returned.base_score # <<>> /\ returned.raised_score # <<>>

\* C18: the base score is monotone in impact: raising one impact metric
\* (C, I, A of v3.1; VC, VI, VA, SC, SI, SA of v4.0) from N to L or from L
\* to H, every other metric kept, never lowers the base score, for v3.1
\* with either scope and for v4.0.
RaisedImpactNeverLowersBaseScore ==
    BothScored => FloatLe(returned.base_score[1], returned.raised_score[1])

\* A v3.1 vector of changed scope whose base score rose with the metric
ChangedScopeScoreRose ==
    /\ BothScored
    /\ argument.version = "3.1"
    /\ argument.segs[5] = Seg("S", "C")
    /\ argument.segs[argument.raised][3] = "L"
    /\ FloatLt(returned.base_score[1], returned.raised_score[1])

(***************************************************************************)
(* Claims on the window.                                                   *)
(***************************************************************************)
\* The process_file handlers entered and not returned
ProcessingRuns == {i \in DOMAIN stack : stack[i].fn = "process_file"}

\* A processing run is in a root.update() before it has enabled the inputs
\* again
DispatchingInRun ==
    /\ stack # <<>>
    /\ Top.fn = "process_file"
    /\ Top.at \in {"line 130", "log_progress"}

\* C21: CVSSCalculatorGUI.process_file is never re-entered: at every point
\* of a processing run where pending events can be dispatched (root.update()
\* in update_status and update_progress) Browse and Process are already
\* disabled, so no second run starts before the first has finished and
\* enabled the inputs again.
ProcessFileIsNeverReentered ==
    /\ Cardinality(ProcessingRuns) <= 1
    /\ DispatchingInRun =>
           /\ controls.select_button = "disabled"
           /\ controls.process_button = "disabled"
====
